---- MODULE Spec2Model ----
(***************************************************************************)
(* The ranked status-transition store of todo-tracker (pkg/db).            *)
(*                                                                         *)
(* Durable storage is the sqlite file: the tables todo, label and          *)
(* todo_label (the status table never changes after base.sql).  The        *)
(* in-memory mirror is the Database struct: Statuses, Labels, Todos and    *)
(* the Todo objects they point to.  Every exported method of Database is   *)
(* one action; the storage calls it issues are numbered 1, 2, ... in       *)
(* program order and the input failAt names the call that returns an       *)
(* error (0: none does).                                                   *)
(***************************************************************************)
EXTENDS Integers, Sequences, FiniteSets, TLC

(* ---------------------------------------------------------------------- *)
(* Bounds of the exploration                                               *)
(* ---------------------------------------------------------------------- *)
\* rows the todo table may hold in Spec
MaxTodos == 2

\* labels NewLabel may add to the nine seed labels in Spec
MaxNewLabels == 1

\* todos left over once the closed list is full, in SpecCap
MaxSpare == 1

\* rows the todo table may hold in SpecMoves
MaxMovedTodos == 2

\* rows the todo table may hold in SpecRestart
MaxRestartTodos == 2

\* rows the todo table may hold in SpecLabels
MaxLabelledTodos == 2

\* labels, the first of table label, that are put on todos in SpecLabels
MaxTodoLabels == 3

\* the todos made while two callers race
MaxRaceTodos == 2

(* ---------------------------------------------------------------------- *)
(* Program constants                                                       *)
(* ---------------------------------------------------------------------- *)
MaxClosedTodos == 5

StatusClosed == "closed"

StatusOpen == "open"

StatusDone == "done"

StatusOnHold == "on_hold"

StatusAbandoned == "abandoned"

StatusNames == {StatusOpen, StatusClosed, StatusOnHold, StatusDone, StatusAbandoned}

\* the rows of table status: INSERT OR IGNORE INTO status (id, name)
status == [open |-> 1, closed |-> 2, on_hold |-> 3, done |-> 4, abandoned |-> 5]

\* the rows of table label after base.sql ran on an empty file (id = index)
SeedLabels == <<"task", "learning", "human_interaction", "urgent", "platform_learning", "personal_growth", "environment_setup", "planning/design", "onboarding">>

\* the nil *Todo
Nil == 0

\* error values; "nil" is the nil error
ErrNone == "nil"

ErrMaxClosedTodos == "ErrMaxClosedTodos"

ErrInvalidTodoMoveNoStatusChange == "ErrInvalidTodoMoveNoStatusChange"

ErrInvalidTodoMove == "ErrInvalidTodoMove"

ErrCantMoveFirstTodoUp == "ErrCantMoveFirstTodoUp"

ErrCantMoveLastTodoDown == "ErrCantMoveLastTodoDown"

ErrNilTodo == "ErrNilTodo"

ErrEmptyTitle == "ErrEmptyTitle"

\* a Go run-time panic (slice bounds or index out of range)
Panic == "panic"

(* ---------------------------------------------------------------------- *)
(* State                                                                   *)
(* ---------------------------------------------------------------------- *)
VARIABLES
  todoTbl,       \* table todo: row id -> [title, description, status_id, rank]
  labelTbl,      \* table label: row id -> name
  todoLabelTbl,  \* table todo_label: set of <<todo_id, label_id>>
  Statuses,      \* Database.Statuses: name -> [id, Name, Todos]
  Labels,        \* Database.Labels: sequence of [id, Name]
  Todos,         \* Database.Todos: sequence of todo pointers
  heap,          \* the Todo objects: pointer -> [id, Title, Description, Labels, Rank, Status]
  result,        \* the last call and the error it returned: [op, err]
  everClosed,    \* history: the todos that have been in closed
  reopened,      \* history: the store has been closed and opened again
  created,       \* history: the ids of the todos NewTodo has returned
  database,      \* the *Database NewDatabase returned to the caller: NoDatabase for nil
  calls,         \* the call each caller has in progress, one storage call at a time: caller -> frame
  overlapped,    \* history: two calls have been in progress at the same time
  controller     \* the Controller: [selectedStatus, selectedTodo, page, statusTables]

durable == <<todoTbl, labelTbl, todoLabelTbl>>

mirror == <<Statuses, Labels, Todos, heap>>

vars == <<todoTbl, labelTbl, todoLabelTbl, Statuses, Labels, Todos, heap, result, everClosed, reopened, created, database, calls, overlapped, controller>>

\* the two values of the pointer NewDatabase returns
NoDatabase == "nil"

TheDatabase == "&database"

(* ---------------------------------------------------------------------- *)
(* Helpers                                                                 *)
(* ---------------------------------------------------------------------- *)
Range(s) == {s[i] : i \in 1..Len(s)}

\* Go s[lo:] on a slice held as a sequence (lo is the zero-based Go index)
SliceFrom(s, lo) == SubSeq(s, lo + 1, Len(s))

\* Go s[:hi]
SliceTo(s, hi) == SubSeq(s, 1, hi)

\* n copies of the storage call c
Repeat(c, n) == [i \in 1..n |-> c]

\* the value returned by a handler: the error, the storage calls it issued,
\* and the tables and objects it leaves behind
Outcome(err, io, tt, lt, tlt, st, lb, hp) == [err |-> err, io |-> io, todoTbl |-> tt, labelTbl |-> lt, todoLabelTbl |-> tlt, Statuses |-> st, Labels |-> lb, heap |-> hp]

\* a handler that returns err having changed nothing
Untouched(err, io) == Outcome(err, io, todoTbl, labelTbl, todoLabelTbl, Statuses, Labels, heap)

\* the goroutines that call the store
Callers == {1, 2}

\* the frame of a caller that has no call in progress; of a call in progress
\* it holds the handler, the statement it is at, its arguments and locals
\* (ptrs the slice it ranges over or prevTodo, i the loop index or the rank
\* NewTodo computed), the uncommitted rows of its transaction, whether it holds
\* the write lock of the file, whether it has committed, the storage calls and
\* writes to objects it has made, and the error it is about to return
IdleFrame == [op |-> "", pc |-> "idle", todo |-> Nil, oldStatus |-> "", newStatus |-> "", title |-> "", ptrs |-> <<>>, i |-> 0, working |-> <<>>, locked |-> FALSE, committed |-> FALSE, io |-> <<>>, err |-> ErrNone]

(* ---------------------------------------------------------------------- *)
(* The controller: selection state and the handlers' effect on it          *)
(* ---------------------------------------------------------------------- *)
\* the page of the new/edit form
FormPage == "form"

\* StatusContent.GetRowCount: the header row and one row for each todo
GetRowCount(Sts, name) == Len(Sts[name].Todos) + 1

\* the todo of a table row of the selected status: row 0 is the header
getTodoForRow(c, Sts, row) ==
  LET idx == row - 1
  IN  IF idx < Len(Sts[c.selectedStatus].Todos) /\ idx >= 0 THEN Sts[c.selectedStatus].Todos[idx + 1] ELSE Nil

\* the selection-changed callback of every status table
setCurrentRow(c, Sts, row) == [c EXCEPT !.selectedTodo = getTodoForRow(c, Sts, row)]

\* tview Table.Select: the row is stored and the selection-changed callback fires
Select(c, Sts, name, row) == setCurrentRow([c EXCEPT !.statusTables[name] = row], Sts, row)

updateTableSelection(c, Sts, name, rank) ==
  IF GetRowCount(Sts, name) > rank THEN Select(c, Sts, name, rank + 1) ELSE c

showStatus(c, Sts, hp, name) ==
  LET c1 == [c EXCEPT !.selectedStatus = name]
      row == c1.statusTables[name]
      length == Len(Sts[name].Todos)
      c2 == [c1 EXCEPT !.selectedTodo = IF length > row - 1 /\ row - 1 >= 0 THEN Sts[name].Todos[row]
                                        ELSE IF length > 0 THEN Sts[name].Todos[length]
                                        ELSE Nil]
      c3 == IF c2.selectedTodo # Nil THEN updateTableSelection(c2, Sts, name, hp[c2.selectedTodo].Rank) ELSE c2
  IN  [c3 EXCEPT !.page = name]

\* Controller.Go: closed is shown; initPages selects row 1 of every table when
\* closed has a todo, and the callback and Go select the first todo of closed
Go(Sts) ==
  IF Len(Sts[StatusClosed].Todos) > 0
  THEN [selectedStatus |-> StatusClosed, selectedTodo |-> Sts[StatusClosed].Todos[1], page |-> StatusClosed, statusTables |-> [n \in StatusNames |-> 1]]
  ELSE [selectedStatus |-> StatusClosed, selectedTodo |-> Nil, page |-> StatusClosed, statusTables |-> [n \in StatusNames |-> 0]]

(* ---------------------------------------------------------------------- *)
(* NewDatabase on a fresh file                                             *)
(* ---------------------------------------------------------------------- *)
Init ==
  /\ todoTbl = <<>>
  /\ labelTbl = SeedLabels
  /\ todoLabelTbl = {}
  /\ Statuses = [n \in StatusNames |-> [id |-> status[n], Name |-> n, Todos |-> <<>>]]
  /\ Labels = [i \in 1..Len(SeedLabels) |-> [id |-> i, Name |-> SeedLabels[i]]]
  /\ Todos = <<>>
  /\ heap = <<>>
  /\ result = [op |-> "NewDatabase", err |-> ErrNone]
  /\ everClosed = {}
  /\ reopened = FALSE
  /\ created = {}
  /\ database = TheDatabase
  /\ calls = [c \in Callers |-> IdleFrame]
  /\ overlapped = FALSE
  /\ controller = Go(Statuses)

(* ---------------------------------------------------------------------- *)
(* SQL statements, applied to a copy of a table                            *)
(* ---------------------------------------------------------------------- *)
\* INSERT INTO todo (title, description, status_id, rank, ...) VALUES (...)
InsertTodo(tbl, title, description, statusID, rank) == Append(tbl, [title |-> title, description |-> description, status_id |-> statusID, rank |-> rank])

\* the UPDATE of title and description that also sets the rank to 0
UpdateTitleDescription_ResetRank(tbl, title, description, id) == IF id \in DOMAIN tbl THEN [tbl EXCEPT ![id].title = title, ![id].description = description, ![id].rank = 0] ELSE tbl

\* UPDATE todo SET title=$1, description=$2 WHERE id=$3
UpdateTitleDescription(tbl, title, description, id) == IF id \in DOMAIN tbl THEN [tbl EXCEPT ![id].title = title, ![id].description = description] ELSE tbl

\* the status UPDATE writing the status and leaving the rank of the row
UpdateStatusRank_KeepRank(tbl, statusID, rank, id) == IF id \in DOMAIN tbl THEN [tbl EXCEPT ![id].status_id = statusID] ELSE tbl

\* UPDATE todo SET status_id=$1, rank=$2 WHERE id=$3
UpdateStatusRank(tbl, statusID, rank, id) == IF id \in DOMAIN tbl THEN [tbl EXCEPT ![id].status_id = statusID, ![id].rank = rank] ELSE tbl

\* UPDATE todo SET rank=rank - 1 WHERE id=$1
DecrementRank(tbl, id) == IF id \in DOMAIN tbl THEN [tbl EXCEPT ![id].rank = @ - 1] ELSE tbl

\* UPDATE todo SET rank=$1 WHERE id=$2
UpdateRank(tbl, rank, id) == IF id \in DOMAIN tbl THEN [tbl EXCEPT ![id].rank = rank] ELSE tbl

\* the decrement statements of persistStatusChange for the first n todos of ids
RECURSIVE DecrementRanks(_, _, _)
DecrementRanks(tbl, ids, n) == IF n = 0 THEN tbl ELSE DecrementRank(DecrementRanks(tbl, ids, n - 1), ids[n])

(* ---------------------------------------------------------------------- *)
(* ChangeStatus                                                            *)
(* ---------------------------------------------------------------------- *)
\* validateStatusChange letting the closed list grow to MaxClosedTodos + 1
validateStatusChange_OffByOne(todo, oldStatus, newStatus) ==
  IF todo = Nil THEN ErrNilTodo
  ELSE IF newStatus.Name = StatusClosed /\ Len(newStatus.Todos) > MaxClosedTodos THEN ErrMaxClosedTodos
  ELSE IF newStatus.id = oldStatus.id THEN ErrInvalidTodoMoveNoStatusChange
  ELSE IF oldStatus.Name = StatusClosed /\ newStatus.Name = StatusOpen THEN ErrInvalidTodoMove
  ELSE IF (oldStatus.Name = StatusOpen \/ oldStatus.Name = StatusOnHold) /\ newStatus.Name = StatusDone THEN ErrInvalidTodoMove
  ELSE ErrNone

\* validateStatusChange applying the limit of the closed list to moves from open only
validateStatusChange_CapFromOpen(todo, oldStatus, newStatus) ==
  IF todo = Nil THEN ErrNilTodo
  ELSE IF oldStatus.Name = StatusOpen /\ newStatus.Name = StatusClosed /\ Len(newStatus.Todos) >= MaxClosedTodos THEN ErrMaxClosedTodos
  ELSE IF newStatus.id = oldStatus.id THEN ErrInvalidTodoMoveNoStatusChange
  ELSE IF oldStatus.Name = StatusClosed /\ newStatus.Name = StatusOpen THEN ErrInvalidTodoMove
  ELSE IF (oldStatus.Name = StatusOpen \/ oldStatus.Name = StatusOnHold) /\ newStatus.Name = StatusDone THEN ErrInvalidTodoMove
  ELSE ErrNone

\* validateStatusChange without the on_hold half of the rule on done
validateStatusChange_OnHoldToDone(todo, oldStatus, newStatus) ==
  IF todo = Nil THEN ErrNilTodo
  ELSE IF newStatus.Name = StatusClosed /\ Len(newStatus.Todos) >= MaxClosedTodos THEN ErrMaxClosedTodos
  ELSE IF newStatus.id = oldStatus.id THEN ErrInvalidTodoMoveNoStatusChange
  ELSE IF oldStatus.Name = StatusClosed /\ newStatus.Name = StatusOpen THEN ErrInvalidTodoMove
  ELSE IF oldStatus.Name = StatusOpen /\ newStatus.Name = StatusDone THEN ErrInvalidTodoMove
  ELSE ErrNone

\* validateStatusChange admitting to done from closed only
validateStatusChange_DoneFromClosed(todo, oldStatus, newStatus) ==
  IF todo = Nil THEN ErrNilTodo
  ELSE IF newStatus.Name = StatusClosed /\ Len(newStatus.Todos) >= MaxClosedTodos THEN ErrMaxClosedTodos
  ELSE IF newStatus.id = oldStatus.id THEN ErrInvalidTodoMoveNoStatusChange
  ELSE IF oldStatus.Name = StatusClosed /\ newStatus.Name = StatusOpen THEN ErrInvalidTodoMove
  ELSE IF oldStatus.Name # StatusClosed /\ newStatus.Name = StatusDone THEN ErrInvalidTodoMove
  ELSE ErrNone

\* validateStatusChange holding a full closed list shut in both directions
validateStatusChange_FullIsFrozen(todo, oldStatus, newStatus) ==
  IF todo = Nil THEN ErrNilTodo
  ELSE IF (newStatus.Name = StatusClosed \/ oldStatus.Name = StatusClosed) /\ Len(IF newStatus.Name = StatusClosed THEN newStatus.Todos ELSE oldStatus.Todos) >= MaxClosedTodos THEN ErrMaxClosedTodos
  ELSE IF newStatus.id = oldStatus.id THEN ErrInvalidTodoMoveNoStatusChange
  ELSE IF oldStatus.Name = StatusClosed /\ newStatus.Name = StatusOpen THEN ErrInvalidTodoMove
  ELSE IF (oldStatus.Name = StatusOpen \/ oldStatus.Name = StatusOnHold) /\ newStatus.Name = StatusDone THEN ErrInvalidTodoMove
  ELSE ErrNone

\* arguments are the todo pointer and the two Status objects
\* validateStatusChange testing the closed cap before the nil todo
validateStatusChange_CapBeforeNil(todo, oldStatus, newStatus) ==
  IF newStatus.Name = StatusClosed /\ Len(newStatus.Todos) >= MaxClosedTodos THEN ErrMaxClosedTodos
  ELSE IF todo = Nil THEN ErrNilTodo
  ELSE IF newStatus.id = oldStatus.id THEN ErrInvalidTodoMoveNoStatusChange
  ELSE IF oldStatus.Name = StatusClosed /\ newStatus.Name = StatusOpen THEN ErrInvalidTodoMove
  ELSE IF (oldStatus.Name = StatusOpen \/ oldStatus.Name = StatusOnHold) /\ newStatus.Name = StatusDone THEN ErrInvalidTodoMove
  ELSE ErrNone

validateStatusChange(todo, oldStatus, newStatus) ==
  IF todo = Nil THEN ErrNilTodo
  ELSE IF newStatus.Name = StatusClosed /\ Len(newStatus.Todos) >= MaxClosedTodos THEN ErrMaxClosedTodos
  ELSE IF newStatus.id = oldStatus.id THEN ErrInvalidTodoMoveNoStatusChange
  ELSE IF oldStatus.Name = StatusClosed /\ newStatus.Name = StatusOpen THEN ErrInvalidTodoMove
  ELSE IF (oldStatus.Name = StatusOpen \/ oldStatus.Name = StatusOnHold) /\ newStatus.Name = StatusDone THEN ErrInvalidTodoMove
  ELSE ErrNone

\* rollbackOnError returning the failure of the rollback without the error
\* that caused it
rollbackOnError_DropOriginal(rbFail, err) == IF rbFail THEN "error rolling back transaction" ELSE err

\* tx.Rollback() failing wraps the error; the transaction is abandoned either way
rollbackOnError(rbFail, err) == IF rbFail THEN "error rolling back transaction after " \o err ELSE err

\* the todo table a transaction leaves committed: its working copy when every
\* statement and the commit succeeded, the table as it was otherwise
Transaction(tbl, working, committed) == IF committed THEN working ELSE tbl

\* returns [err, io, todoTbl]; storage calls: 1 BeginTx, 2 the status UPDATE,
\* 3 .. m+2 the rank decrements, m+3 Commit
persistStatusChange(todo, oldStatus, newStatus, failAt, rbFail) ==
  LET toUpdate == SliceFrom(oldStatus.Todos, heap[todo].Rank + 1)
      m == Len(toUpdate)
      ids == [i \in 1..m |-> heap[toUpdate[i]].id]
      moved == UpdateStatusRank(todoTbl, newStatus.id, Len(newStatus.Todos), heap[todo].id)
      working == DecrementRanks(moved, ids, m)
  IN  IF failAt = 1 THEN [err |-> "error opening transaction", io |-> <<"BeginTx">>, todoTbl |-> todoTbl]
      ELSE IF failAt = 2 THEN [err |-> rollbackOnError(rbFail, "error updating todo"), io |-> <<"BeginTx", "Exec", "Rollback">>, todoTbl |-> Transaction(todoTbl, moved, FALSE)]
      ELSE IF failAt \in 3..(m + 2) THEN [err |-> rollbackOnError(rbFail, "error updating todo rank"), io |-> <<"BeginTx">> \o Repeat("Exec", failAt - 1) \o <<"Rollback">>, todoTbl |-> Transaction(todoTbl, DecrementRanks(moved, ids, failAt - 3), FALSE)]
      ELSE IF failAt = m + 3 THEN [err |-> "error committing changes", io |-> <<"BeginTx">> \o Repeat("Exec", m + 1) \o <<"Commit">>, todoTbl |-> Transaction(todoTbl, working, FALSE)]
      ELSE [err |-> ErrNone, io |-> <<"BeginTx">> \o Repeat("Exec", m + 1) \o <<"Commit">>, todoTbl |-> Transaction(todoTbl, working, TRUE)]

\* todoToUpdate.Rank-- for every todo of the sequence, in order
RECURSIVE DecrementLocal(_, _, _)
DecrementLocal(hp, ptrs, n) == IF n = 0 THEN hp ELSE LET h == DecrementLocal(hp, ptrs, n - 1) IN [h EXCEPT ![ptrs[n]].Rank = @ - 1]

\* localStatusChange leaving the ranks of the todos behind the moved one as they were
localStatusChange_KeepRanks(todo, oldStatus, newStatus) ==
  LET rank == heap[todo].Rank
      oldTodos == SliceTo(oldStatus.Todos, rank) \o SliceFrom(oldStatus.Todos, rank + 1)
      s1 == [Statuses EXCEPT ![oldStatus.Name].Todos = oldTodos]
      s2 == [s1 EXCEPT ![newStatus.Name].Todos = Append(@, todo)]
  IN  [Statuses |-> s2, heap |-> [heap EXCEPT ![todo].Status = newStatus.Name, ![todo].Rank = Len(s2[newStatus.Name].Todos) - 1]]

\* localStatusChange decrementing the rank of every other todo of the old list
localStatusChange_DecrementAll(todo, oldStatus, newStatus) ==
  LET rank == heap[todo].Rank
      others == SliceTo(oldStatus.Todos, rank) \o SliceFrom(oldStatus.Todos, rank + 1)
      h1 == DecrementLocal(heap, others, Len(others))
      s1 == [Statuses EXCEPT ![oldStatus.Name].Todos = others]
      s2 == [s1 EXCEPT ![newStatus.Name].Todos = Append(@, todo)]
  IN  [Statuses |-> s2, heap |-> [h1 EXCEPT ![todo].Status = newStatus.Name, ![todo].Rank = Len(s2[newStatus.Name].Todos) - 1]]

\* returns [Statuses, heap]
localStatusChange(todo, oldStatus, newStatus) ==
  LET rank == heap[todo].Rank
      toUpdate == SliceFrom(oldStatus.Todos, rank + 1)
      h1 == DecrementLocal(heap, toUpdate, Len(toUpdate))
      oldTodos == SliceTo(oldStatus.Todos, rank) \o SliceFrom(oldStatus.Todos, rank + 1)
      s1 == [Statuses EXCEPT ![oldStatus.Name].Todos = oldTodos]
      s2 == [s1 EXCEPT ![newStatus.Name].Todos = Append(@, todo)]
  IN  [Statuses |-> s2, heap |-> [h1 EXCEPT ![todo].Status = newStatus.Name, ![todo].Rank = Len(s2[newStatus.Name].Todos) - 1]]

\* ChangeStatus changing the objects before the transaction is committed
ChangeStatusOutcome_LocalFirst(todo, oldStatus, newStatus, failAt, rbFail) ==
  LET verr == validateStatusChange(todo, Statuses[oldStatus], Statuses[newStatus])
  IN  IF verr # ErrNone THEN Untouched(verr, <<>>)
      ELSE IF heap[todo].Rank + 1 > Len(Statuses[oldStatus].Todos) \/ heap[todo].Rank + 1 < 0 THEN Untouched(Panic, <<>>)
      ELSE LET p == persistStatusChange(todo, Statuses[oldStatus], Statuses[newStatus], failAt, rbFail)
               l == localStatusChange(todo, Statuses[oldStatus], Statuses[newStatus])
           IN  Outcome(p.err, p.io, p.todoTbl, labelTbl, todoLabelTbl, l.Statuses, Labels, l.heap)

\* ChangeStatus opening the transaction before it validates
ChangeStatusOutcome_ValidateInTx(todo, oldStatus, newStatus, failAt, rbFail) ==
  LET verr == validateStatusChange(todo, Statuses[oldStatus], Statuses[newStatus])
  IN  IF verr # ErrNone THEN Untouched(verr, <<"BeginTx", "Rollback">>)
      ELSE IF heap[todo].Rank + 1 > Len(Statuses[oldStatus].Todos) \/ heap[todo].Rank + 1 < 0 THEN Untouched(Panic, <<>>)
      ELSE LET p == persistStatusChange(todo, Statuses[oldStatus], Statuses[newStatus], failAt, rbFail)
               l == localStatusChange(todo, Statuses[oldStatus], Statuses[newStatus])
           IN  IF p.err # ErrNone THEN Outcome(p.err, p.io, p.todoTbl, labelTbl, todoLabelTbl, Statuses, Labels, heap)
               ELSE Outcome(ErrNone, p.io, p.todoTbl, labelTbl, todoLabelTbl, l.Statuses, Labels, l.heap)

\* oldStatus and newStatus are pointers to Status objects, held as their map key;
\* with Rank = -1 the transaction is committed and localStatusChange panics on
\* oldStatus.Todos[:todo.Rank] after it decremented the ranks
ChangeStatusOutcome(todo, oldStatus, newStatus, failAt, rbFail) ==
  LET verr == validateStatusChange(todo, Statuses[oldStatus], Statuses[newStatus])
  IN  IF verr # ErrNone THEN Untouched(verr, <<>>)
      ELSE IF heap[todo].Rank + 1 > Len(Statuses[oldStatus].Todos) \/ heap[todo].Rank + 1 < 0 THEN Untouched(Panic, <<>>)
      ELSE LET p == persistStatusChange(todo, Statuses[oldStatus], Statuses[newStatus], failAt, rbFail)
               l == localStatusChange(todo, Statuses[oldStatus], Statuses[newStatus])
           IN  IF p.err # ErrNone THEN Outcome(p.err, p.io, p.todoTbl, labelTbl, todoLabelTbl, Statuses, Labels, heap)
               ELSE IF heap[todo].Rank < 0 THEN Outcome(Panic, p.io, p.todoTbl, labelTbl, todoLabelTbl, Statuses, Labels, DecrementLocal(heap, Statuses[oldStatus].Todos, Len(Statuses[oldStatus].Todos)))
               ELSE Outcome(ErrNone, p.io, p.todoTbl, labelTbl, todoLabelTbl, l.Statuses, Labels, l.heap)

\* the number of storage calls ChangeStatus issues when none fails
ChangeStatusCalls(todo, oldStatus, newStatus) ==
  IF validateStatusChange(todo, Statuses[oldStatus], Statuses[newStatus]) # ErrNone THEN 0
  ELSE IF heap[todo].Rank + 1 > Len(Statuses[oldStatus].Todos) THEN 0
  ELSE Len(Statuses[oldStatus].Todos) - heap[todo].Rank - 1 + 3

\* a handler returned out; the todo it made, if any, is recorded in created
\* the handler's outcome becomes the state of the store and the caller's result
Apply(op, out) ==
  /\ todoTbl' = out.todoTbl
  /\ labelTbl' = out.labelTbl
  /\ todoLabelTbl' = out.todoLabelTbl
  /\ Statuses' = out.Statuses
  /\ Labels' = out.Labels
  /\ heap' = out.heap
  /\ Todos' = Todos
  /\ result' = [op |-> op, err |-> out.err]
  /\ created' = created \cup {out.heap[p].id : p \in DOMAIN out.heap \ DOMAIN heap}
  /\ database' = database
  /\ UNCHANGED <<calls, overlapped>>

Return(op, out) == Apply(op, out) /\ UNCHANGED controller

ChangeStatus(todo, oldStatus, newStatus, failAt, rbFail) ==
  /\ failAt <= ChangeStatusCalls(todo, oldStatus, newStatus)
  /\ rbFail => failAt \in 2..(ChangeStatusCalls(todo, oldStatus, newStatus) - 1)
  /\ Return("ChangeStatus", ChangeStatusOutcome(todo, oldStatus, newStatus, failAt, rbFail))

(* ---------------------------------------------------------------------- *)
(* NewTodo                                                                 *)
(* ---------------------------------------------------------------------- *)
\* NewTodo testing the title after the INSERT was issued
NewTodoOutcome_InsertFirst(title, description, failAt) ==
  LET open == Statuses[StatusOpen]
      rank == Len(open.Todos)
      inserted == InsertTodo(todoTbl, title, description, open.id, rank)
      todoID == Len(inserted)
      todo == [id |-> todoID, Title |-> title, Description |-> description, Labels |-> <<>>, Rank |-> rank, Status |-> StatusOpen]
  IN  IF title = "" THEN Untouched(ErrEmptyTitle, <<"Exec", "Rollback">>)
      ELSE IF failAt = 1 THEN Untouched("error adding todo", <<"Exec">>)
      ELSE IF failAt = 2 THEN Outcome("error getting id of new todo", <<"Exec", "LastInsertId">>, inserted, labelTbl, todoLabelTbl, Statuses, Labels, heap)
      ELSE Outcome(ErrNone, <<"Exec", "LastInsertId">>, inserted, labelTbl, todoLabelTbl, [Statuses EXCEPT ![StatusOpen].Todos = Append(@, todoID)], Labels, [p \in DOMAIN heap \cup {todoID} |-> IF p = todoID THEN todo ELSE heap[p]])

\* NewTodo giving every new todo rank 0
NewTodoOutcome_RankZero(title, description, failAt) ==
  LET open == Statuses[StatusOpen]
      rank == 0
      inserted == InsertTodo(todoTbl, title, description, open.id, rank)
      todoID == Len(inserted)
      todo == [id |-> todoID, Title |-> title, Description |-> description, Labels |-> <<>>, Rank |-> rank, Status |-> StatusOpen]
  IN  IF title = "" THEN Untouched(ErrEmptyTitle, <<>>)
      ELSE IF failAt = 1 THEN Untouched("error adding todo", <<"Exec">>)
      ELSE IF failAt = 2 THEN Outcome("error getting id of new todo", <<"Exec", "LastInsertId">>, inserted, labelTbl, todoLabelTbl, Statuses, Labels, heap)
      ELSE Outcome(ErrNone, <<"Exec", "LastInsertId">>, inserted, labelTbl, todoLabelTbl, [Statuses EXCEPT ![StatusOpen].Todos = Append(@, todoID)], Labels, [p \in DOMAIN heap \cup {todoID} |-> IF p = todoID THEN todo ELSE heap[p]])

\* storage calls: 1 the INSERT, 2 result.LastInsertId()
NewTodoOutcome(title, description, failAt) ==
  LET open == Statuses[StatusOpen]
      rank == Len(open.Todos)
      inserted == InsertTodo(todoTbl, title, description, open.id, rank)
      todoID == Len(inserted)
      todo == [id |-> todoID, Title |-> title, Description |-> description, Labels |-> <<>>, Rank |-> rank, Status |-> StatusOpen]
  IN  IF title = "" THEN Untouched(ErrEmptyTitle, <<>>)
      ELSE IF failAt = 1 THEN Untouched("error adding todo", <<"Exec">>)
      ELSE IF failAt = 2 THEN Outcome("error getting id of new todo", <<"Exec", "LastInsertId">>, inserted, labelTbl, todoLabelTbl, Statuses, Labels, heap)
      ELSE Outcome(ErrNone, <<"Exec", "LastInsertId">>, inserted, labelTbl, todoLabelTbl, [Statuses EXCEPT ![StatusOpen].Todos = Append(@, todoID)], Labels, [p \in DOMAIN heap \cup {todoID} |-> IF p = todoID THEN todo ELSE heap[p]])

NewTodo(title, description, failAt) ==
  /\ failAt <= (IF title = "" THEN 0 ELSE 2)
  /\ Return("NewTodo", NewTodoOutcome(title, description, failAt))

(* ---------------------------------------------------------------------- *)
(* UpdateTodo                                                              *)
(* ---------------------------------------------------------------------- *)
\* UpdateTodo accepting the empty title
UpdateTodoOutcome_NoTitleCheck(todo, title, description, failAt) ==
  IF todo = Nil THEN Untouched(ErrNilTodo, <<>>)
  ELSE IF failAt = 1 THEN Untouched("error updating todo", <<"Exec">>)
  ELSE Outcome(ErrNone, <<"Exec">>, UpdateTitleDescription(todoTbl, title, description, heap[todo].id), labelTbl, todoLabelTbl, Statuses, Labels, [heap EXCEPT ![todo].Title = title, ![todo].Description = description])

\* storage calls: 1 the UPDATE
UpdateTodoOutcome(todo, title, description, failAt) ==
  IF todo = Nil THEN Untouched(ErrNilTodo, <<>>)
  ELSE IF title = "" THEN Untouched(ErrEmptyTitle, <<>>)
  ELSE IF failAt = 1 THEN Untouched("error updating todo", <<"Exec">>)
  ELSE Outcome(ErrNone, <<"Exec">>, UpdateTitleDescription(todoTbl, title, description, heap[todo].id), labelTbl, todoLabelTbl, Statuses, Labels, [heap EXCEPT ![todo].Title = title, ![todo].Description = description])

UpdateTodo(todo, title, description, failAt) ==
  /\ failAt <= (IF todo = Nil \/ title = "" THEN 0 ELSE 1)
  /\ Return("UpdateTodo", UpdateTodoOutcome(todo, title, description, failAt))

(* ---------------------------------------------------------------------- *)
(* MoveUp and MoveDown                                                     *)
(* ---------------------------------------------------------------------- *)
\* the swap leaving the slice as it is
Swap_None(todos, a, b) == todos

\* todos[a], todos[b] = todos[b], todos[a] (zero-based Go indices)
Swap(todos, a, b) == [todos EXCEPT ![a + 1] = todos[b + 1], ![b + 1] = todos[a + 1]]

\* MoveUp without the test of rank 0
MoveUpOutcome_NoFirstCheck(todo, failAt, rbFail) ==
  IF todo = Nil THEN Untouched(ErrNilTodo, <<>>)
  ELSE LET rank == heap[todo].Rank
           todos == Statuses[heap[todo].Status].Todos
       IN  IF rank - 1 < 0 \/ rank - 1 >= Len(todos) THEN Untouched(Panic, <<>>)
           ELSE LET prevTodo == todos[rank]
                    first == UpdateRank(todoTbl, rank - 1, heap[todo].id)
                    working == UpdateRank(first, heap[prevTodo].Rank + 1, heap[prevTodo].id)
                IN  IF failAt = 1 THEN Untouched("error opening transaction", <<"BeginTx">>)
                    ELSE IF failAt = 2 THEN Outcome(rollbackOnError(rbFail, "error updating todo"), <<"BeginTx", "Exec", "Rollback">>, Transaction(todoTbl, todoTbl, FALSE), labelTbl, todoLabelTbl, Statuses, Labels, heap)
                    ELSE IF failAt = 3 THEN Outcome(rollbackOnError(rbFail, "error updating todo"), <<"BeginTx", "Exec", "Exec", "Rollback">>, Transaction(todoTbl, first, FALSE), labelTbl, todoLabelTbl, Statuses, Labels, heap)
                    ELSE IF failAt = 4 THEN Outcome("error committing changes", <<"BeginTx", "Exec", "Exec", "Commit">>, Transaction(todoTbl, working, FALSE), labelTbl, todoLabelTbl, Statuses, Labels, heap)
                    ELSE IF rank >= Len(todos) THEN Outcome(Panic, <<"BeginTx", "Exec", "Exec", "Commit">>, Transaction(todoTbl, working, TRUE), labelTbl, todoLabelTbl, Statuses, Labels, heap)
                    ELSE LET swapped == [Statuses EXCEPT ![heap[todo].Status].Todos = Swap(todos, rank - 1, rank)]
                             h1 == [heap EXCEPT ![todo].Rank = @ - 1]
                             h2 == [h1 EXCEPT ![prevTodo].Rank = @ + 1]
                         IN  Outcome(ErrNone, <<"BeginTx", "Exec", "Exec", "Commit">>, Transaction(todoTbl, working, TRUE), labelTbl, todoLabelTbl, swapped, Labels, h2)

\* storage calls: 1 BeginTx, 2 and 3 the rank UPDATEs, 4 Commit
MoveUpOutcome(todo, failAt, rbFail) ==
  IF todo = Nil THEN Untouched(ErrNilTodo, <<>>)
  ELSE IF heap[todo].Rank = 0 THEN Untouched(ErrCantMoveFirstTodoUp, <<>>)
  ELSE LET rank == heap[todo].Rank
           todos == Statuses[heap[todo].Status].Todos
       IN  IF rank - 1 < 0 \/ rank - 1 >= Len(todos) THEN Untouched(Panic, <<>>)
           ELSE LET prevTodo == todos[rank]
                    first == UpdateRank(todoTbl, rank - 1, heap[todo].id)
                    working == UpdateRank(first, heap[prevTodo].Rank + 1, heap[prevTodo].id)
                IN  IF failAt = 1 THEN Untouched("error opening transaction", <<"BeginTx">>)
                    ELSE IF failAt = 2 THEN Outcome(rollbackOnError(rbFail, "error updating todo"), <<"BeginTx", "Exec", "Rollback">>, Transaction(todoTbl, todoTbl, FALSE), labelTbl, todoLabelTbl, Statuses, Labels, heap)
                    ELSE IF failAt = 3 THEN Outcome(rollbackOnError(rbFail, "error updating todo"), <<"BeginTx", "Exec", "Exec", "Rollback">>, Transaction(todoTbl, first, FALSE), labelTbl, todoLabelTbl, Statuses, Labels, heap)
                    ELSE IF failAt = 4 THEN Outcome("error committing changes", <<"BeginTx", "Exec", "Exec", "Commit">>, Transaction(todoTbl, working, FALSE), labelTbl, todoLabelTbl, Statuses, Labels, heap)
                    ELSE IF rank >= Len(todos) THEN Outcome(Panic, <<"BeginTx", "Exec", "Exec", "Commit">>, Transaction(todoTbl, working, TRUE), labelTbl, todoLabelTbl, Statuses, Labels, heap)
                    ELSE LET swapped == [Statuses EXCEPT ![heap[todo].Status].Todos = Swap(todos, rank - 1, rank)]
                             h1 == [heap EXCEPT ![todo].Rank = @ - 1]
                             h2 == [h1 EXCEPT ![prevTodo].Rank = @ + 1]
                         IN  Outcome(ErrNone, <<"BeginTx", "Exec", "Exec", "Commit">>, Transaction(todoTbl, working, TRUE), labelTbl, todoLabelTbl, swapped, Labels, h2)

\* the number of storage calls MoveUp issues when none fails
MoveUpCalls(todo) ==
  IF todo = Nil THEN 0
  ELSE IF heap[todo].Rank = 0 THEN 0
  ELSE IF heap[todo].Rank - 1 >= Len(Statuses[heap[todo].Status].Todos) THEN 0
  ELSE 4

MoveUp(todo, failAt, rbFail) ==
  /\ failAt <= MoveUpCalls(todo)
  /\ rbFail => failAt \in 2..3
  /\ Return("MoveUp", MoveUpOutcome(todo, failAt, rbFail))

\* MoveDown moving the todo itself up
MoveDownOutcome_MoveSelfUp(todo, failAt, rbFail) ==
  IF todo = Nil THEN Untouched(ErrNilTodo, <<>>)
  ELSE IF heap[todo].Rank >= Len(Statuses[heap[todo].Status].Todos) - 1 THEN Untouched(ErrCantMoveLastTodoDown, <<>>)
  ELSE IF heap[todo].Rank + 1 < 0 THEN Untouched(Panic, <<>>)
  ELSE MoveUpOutcome(todo, failAt, rbFail)

MoveDownOutcome(todo, failAt, rbFail) ==
  IF todo = Nil THEN Untouched(ErrNilTodo, <<>>)
  ELSE IF heap[todo].Rank >= Len(Statuses[heap[todo].Status].Todos) - 1 THEN Untouched(ErrCantMoveLastTodoDown, <<>>)
  ELSE IF heap[todo].Rank + 1 < 0 THEN Untouched(Panic, <<>>)
  ELSE MoveUpOutcome(Statuses[heap[todo].Status].Todos[heap[todo].Rank + 2], failAt, rbFail)

\* the number of storage calls MoveDown issues when none fails
MoveDownCalls(todo) ==
  IF todo = Nil THEN 0
  ELSE IF heap[todo].Rank >= Len(Statuses[heap[todo].Status].Todos) - 1 THEN 0
  ELSE IF heap[todo].Rank + 1 < 0 THEN 0
  ELSE MoveUpCalls(Statuses[heap[todo].Status].Todos[heap[todo].Rank + 2])

MoveDown(todo, failAt, rbFail) ==
  /\ failAt <= MoveDownCalls(todo)
  /\ rbFail => failAt \in 2..3
  /\ Return("MoveDown", MoveDownOutcome(todo, failAt, rbFail))

(* ---------------------------------------------------------------------- *)
(* NewLabel and UpdateLabel                                                *)
(* ---------------------------------------------------------------------- *)
\* storage calls: 1 the INSERT (label.name is UNIQUE), 2 result.LastInsertId()
NewLabelOutcome(name, failAt) ==
  LET inserted == Append(labelTbl, name)
      id == Len(inserted)
  IN  IF name \in Range(labelTbl) THEN Untouched("error adding label: UNIQUE constraint failed: label.name", <<"Exec">>)
      ELSE IF failAt = 1 THEN Untouched("error adding label", <<"Exec">>)
      ELSE IF failAt = 2 THEN Outcome("error getting id of new label", <<"Exec", "LastInsertId">>, todoTbl, inserted, todoLabelTbl, Statuses, Labels, heap)
      ELSE Outcome(ErrNone, <<"Exec", "LastInsertId">>, todoTbl, inserted, todoLabelTbl, Statuses, Append(Labels, [id |-> id, Name |-> name]), heap)

NewLabel(name, failAt) ==
  /\ failAt <= (IF name \in Range(labelTbl) THEN 0 ELSE 2)
  /\ Return("NewLabel", NewLabelOutcome(name, failAt))

\* UpdateLabel on a label table whose name column is not UNIQUE
UpdateLabelOutcome_NoUnique(label, name, failAt) ==
  LET id == Labels[label].id
  IN  IF failAt = 1 THEN Untouched("error updating label", <<"Exec">>)
      ELSE Outcome(ErrNone, <<"Exec">>, todoTbl, IF id \in DOMAIN labelTbl THEN [labelTbl EXCEPT ![id] = name] ELSE labelTbl, todoLabelTbl, Statuses, [Labels EXCEPT ![label].Name = name], heap)

\* label is a pointer to a Label object, held as its index in Labels;
\* storage calls: 1 the UPDATE
UpdateLabelOutcome(label, name, failAt) ==
  LET id == Labels[label].id
  IN  IF \E other \in DOMAIN labelTbl : other # id /\ labelTbl[other] = name /\ id \in DOMAIN labelTbl THEN Untouched("error updating label: UNIQUE constraint failed: label.name", <<"Exec">>)
      ELSE IF failAt = 1 THEN Untouched("error updating label", <<"Exec">>)
      ELSE Outcome(ErrNone, <<"Exec">>, todoTbl, IF id \in DOMAIN labelTbl THEN [labelTbl EXCEPT ![id] = name] ELSE labelTbl, todoLabelTbl, Statuses, [Labels EXCEPT ![label].Name = name], heap)

UpdateLabel(label, name, failAt) ==
  /\ failAt <= (IF \E other \in DOMAIN labelTbl : other # Labels[label].id /\ labelTbl[other] = name THEN 0 ELSE 1)
  /\ Return("UpdateLabel", UpdateLabelOutcome(label, name, failAt))

(* ---------------------------------------------------------------------- *)
(* AddTodoLabel and RemoveTodoLabel                                        *)
(* ---------------------------------------------------------------------- *)
\* AddTodoLabel on a table todo_label without the UNIQUE constraint
AddTodoLabelOutcome_NoUnique(todo, label, failAt) ==
  LET pair == <<heap[todo].id, Labels[label].id>>
  IN  IF failAt = 1 THEN Untouched("error adding label to todo", <<"Exec">>)
      ELSE Outcome(ErrNone, <<"Exec">>, todoTbl, labelTbl, todoLabelTbl \cup {pair}, Statuses, Labels, [heap EXCEPT ![todo].Labels = Append(@, label)])

\* storage calls: 1 the INSERT (UNIQUE(todo_id, label_id))
AddTodoLabelOutcome(todo, label, failAt) ==
  LET pair == <<heap[todo].id, Labels[label].id>>
  IN  IF pair \in todoLabelTbl THEN Untouched("error adding label to todo: UNIQUE constraint failed: todo_label.todo_id, todo_label.label_id", <<"Exec">>)
      ELSE IF failAt = 1 THEN Untouched("error adding label to todo", <<"Exec">>)
      ELSE Outcome(ErrNone, <<"Exec">>, todoTbl, labelTbl, todoLabelTbl \cup {pair}, Statuses, Labels, [heap EXCEPT ![todo].Labels = Append(@, label)])

AddTodoLabel(todo, label, failAt) ==
  /\ failAt <= (IF <<heap[todo].id, Labels[label].id>> \in todoLabelTbl THEN 0 ELSE 1)
  /\ Return("AddTodoLabel", AddTodoLabelOutcome(todo, label, failAt))

\* the index of the first label of labels whose id is id, 0 when there is none
FirstMatch(labels, id) == IF \E i \in 1..Len(labels) : Labels[labels[i]].id = id THEN CHOOSE i \in 1..Len(labels) : Labels[labels[i]].id = id /\ \A j \in 1..(i - 1) : Labels[labels[j]].id # id ELSE 0

\* RemoveTodoLabel cutting the labels of the todo at the label it removes
RemoveTodoLabelOutcome_Truncate(todo, label, failAt) ==
  LET pair == <<heap[todo].id, Labels[label].id>>
      i == FirstMatch(heap[todo].Labels, Labels[label].id)
      kept == IF i = 0 THEN heap[todo].Labels ELSE SliceTo(heap[todo].Labels, i - 1)
  IN  IF failAt = 1 THEN Untouched("error removing label from todo", <<"Exec">>)
      ELSE Outcome(ErrNone, <<"Exec">>, todoTbl, labelTbl, todoLabelTbl \ {pair}, Statuses, Labels, [heap EXCEPT ![todo].Labels = kept])

\* storage calls: 1 the DELETE
RemoveTodoLabelOutcome(todo, label, failAt) ==
  LET pair == <<heap[todo].id, Labels[label].id>>
      i == FirstMatch(heap[todo].Labels, Labels[label].id)
      kept == IF i = 0 THEN heap[todo].Labels ELSE SliceTo(heap[todo].Labels, i - 1) \o SliceFrom(heap[todo].Labels, i)
  IN  IF failAt = 1 THEN Untouched("error removing label from todo", <<"Exec">>)
      ELSE Outcome(ErrNone, <<"Exec">>, todoTbl, labelTbl, todoLabelTbl \ {pair}, Statuses, Labels, [heap EXCEPT ![todo].Labels = kept])

RemoveTodoLabel(todo, label, failAt) ==
  /\ failAt <= 1
  /\ Return("RemoveTodoLabel", RemoveTodoLabelOutcome(todo, label, failAt))

(* ---------------------------------------------------------------------- *)
(* Close, then NewDatabase on the same file                                *)
(* ---------------------------------------------------------------------- *)
\* the row written over the row that has its id (INSERT OR REPLACE)
InsertOrIgnoreLabel_Replace(tbl, id, name) == IF name \in Range(tbl) THEN tbl ELSE IF id \in DOMAIN tbl THEN [tbl EXCEPT ![id] = name] ELSE Append(tbl, name)

\* one row of INSERT OR IGNORE INTO label (id, name): ignored when the id or the
\* name is taken; the table is held as a sequence, so that a row that is not
\* ignored is the next one
InsertOrIgnoreLabel(tbl, id, name) == IF id \in DOMAIN tbl \/ name \in Range(tbl) THEN tbl ELSE Append(tbl, name)

\* the label rows of base.sql up to the n-th, in order
RECURSIVE InsertOrIgnoreLabels(_, _)
InsertOrIgnoreLabels(tbl, n) == IF n = 0 THEN tbl ELSE InsertOrIgnoreLabel(InsertOrIgnoreLabels(tbl, n - 1), n, SeedLabels[n])

\* initialize: base.sql run on the label table (tables and statuses exist)
initialize(tbl) == InsertOrIgnoreLabels(tbl, Len(SeedLabels))

\* SELECT id, name FROM label
loadLabels(tbl) == [i \in DOMAIN tbl |-> [id |-> i, Name |-> tbl[i]]]

\* the name of the status with the given id
StatusOfID(id) == CHOOSE n \in StatusNames : status[n] = id

\* row a is not after row b in ORDER BY status_id, rank
OrderedBefore(tbl, a, b) == tbl[a].status_id < tbl[b].status_id \/ (tbl[a].status_id = tbl[b].status_id /\ tbl[a].rank <= tbl[b].rank)

\* the orders in which SELECT ... FROM todo ORDER BY status_id, rank may return
\* the rows: rows with equal status_id and rank come in any order
LoadOrders(tbl) == {o \in [DOMAIN tbl -> DOMAIN tbl] : (\A i \in DOMAIN tbl, j \in DOMAIN tbl : i < j => (o[i] # o[j] /\ OrderedBefore(tbl, o[i], o[j])))}

\* the elements of a set of numbers in increasing order
RECURSIVE Ascending(_)
Ascending(S) == IF S = {} THEN <<>> ELSE LET m == CHOOSE x \in S : \A y \in S : y <= x IN Append(Ascending(S \ {m}), m)

\* SELECT todo_id, label_id FROM todo_label ORDER BY todo_id, label_id: the
\* labels appended to the todo with the given id; the label with id l is
\* Labels[l] after loadLabels
loadTodoLabels(tlt, todoID) == Ascending({pair[2] : pair \in {q \in tlt : q[1] = todoID}})

\* loadTodos for the rows returned in the given order: [Statuses, Todos, heap];
\* the object made for a row is named by the id of the row
loadTodos(tbl, tlt, order) ==
  [Statuses |-> [n \in StatusNames |-> [id |-> status[n], Name |-> n, Todos |-> SelectSeq(order, LAMBDA id : tbl[id].status_id = status[n])]],
   Todos |-> order,
   heap |-> [id \in DOMAIN tbl |-> [id |-> id, Title |-> tbl[id].title, Description |-> tbl[id].description, Labels |-> loadTodoLabels(tlt, id), Rank |-> tbl[id].rank, Status |-> StatusOfID(tbl[id].status_id)]]]

\* the store is closed and opened again on the same file
loadData(order) ==
  LET loaded == loadTodos(todoTbl, todoLabelTbl, order)
  IN  /\ labelTbl' = initialize(labelTbl)
      /\ Labels' = loadLabels(labelTbl')
      /\ Statuses' = loaded.Statuses
      /\ Todos' = loaded.Todos
      /\ heap' = loaded.heap
      /\ result' = [op |-> "NewDatabase", err |-> ErrNone]
      /\ database' = TheDatabase
      /\ UNCHANGED <<todoTbl, todoLabelTbl, created, calls, overlapped>>

NewDatabase(order) == loadData(order) /\ UNCHANGED controller

\* the Database struct NewDatabase builds, after the first n of loadLabels,
\* loadStatuses, loadTodos, loadTodoLabels have run
LoadedUpTo(tbl, lt, tlt, order, n) ==
  LET loaded == loadTodos(tbl, tlt, order)
  IN  [Labels |-> IF n >= 1 THEN loadLabels(lt) ELSE <<>>,
       Statuses |-> IF n >= 3 THEN loaded.Statuses ELSE IF n = 2 THEN [name \in StatusNames |-> [id |-> status[name], Name |-> name, Todos |-> <<>>]] ELSE <<>>,
       Todos |-> IF n >= 3 THEN loaded.Todos ELSE <<>>,
       heap |-> IF n >= 4 THEN loaded.heap ELSE IF n = 3 THEN [id \in DOMAIN loaded.heap |-> [loaded.heap[id] EXCEPT !.Labels = <<>>]] ELSE <<>>]

\* the error of the failAt-th storage call of NewDatabase: 1 sql.Open, 2 and 3
\* ExecContext(baseSQL) failing before and after the label seed, 4 to 7 the
\* query of loadLabels, loadStatuses, loadTodos, loadTodoLabels
NewDatabaseErrors == <<"error connecting to sqlite db", "error running base sql", "error running base sql", "error loading labels", "error loading statuses", "error loading todos", "error loading todos">>

\* NewDatabase returning &database whatever happened
NewDatabaseOutcome_ReturnPartial(order, failAt) ==
  LET lt == IF failAt \in {1, 2} THEN labelTbl ELSE initialize(labelTbl)
  IN  [err |-> IF failAt = 0 THEN ErrNone ELSE NewDatabaseErrors[failAt],
       labelTbl |-> lt,
       database |-> TheDatabase,
       loaded |-> LoadedUpTo(todoTbl, lt, todoLabelTbl, order, IF failAt = 0 THEN 4 ELSE IF failAt <= 3 THEN 0 ELSE failAt - 4)]

\* NewDatabase: [err, labelTbl, database, loaded], labelTbl the label table
\* base.sql left, database the pointer returned and loaded the struct it
\* points to (what a nil pointer gives access to: nothing)
NewDatabaseOutcome(order, failAt) ==
  LET lt == IF failAt \in {1, 2} THEN labelTbl ELSE initialize(labelTbl)
  IN  [err |-> IF failAt = 0 THEN ErrNone ELSE NewDatabaseErrors[failAt],
       labelTbl |-> lt,
       database |-> IF failAt = 0 THEN TheDatabase ELSE NoDatabase,
       loaded |-> LoadedUpTo(todoTbl, lt, todoLabelTbl, order, IF failAt = 0 THEN 4 ELSE 0)]

\* the caller closes its store and opens the file again; what NewDatabase
\* returned is the store it has from then on
OpenDatabase(order, failAt) ==
  LET out == NewDatabaseOutcome(order, failAt)
  IN  /\ labelTbl' = out.labelTbl
      /\ database' = out.database
      /\ Statuses' = out.loaded.Statuses
      /\ Labels' = out.loaded.Labels
      /\ Todos' = out.loaded.Todos
      /\ heap' = out.loaded.heap
      /\ result' = [op |-> "NewDatabase", err |-> out.err]
      /\ UNCHANGED <<todoTbl, todoLabelTbl, created, calls, overlapped, controller>>

(* ---------------------------------------------------------------------- *)
(* The callers                                                             *)
(* ---------------------------------------------------------------------- *)
\* the callers pass as oldStatus the status whose list the todo was selected from
\* (controller getMoveAction: c.selectedTodo is a row of c.selectedStatus.Todos)
Selected(todo, oldStatus) == todo = Nil \/ todo \in Range(Statuses[oldStatus].Todos)

\* history: the todos that are or have been in closed
Observe == everClosed' = everClosed \cup {p \in DOMAIN heap' : heap'[p].Status = StatusClosed}

\* no call is in progress and the last result has been taken
Idle == [op |-> "", err |-> ErrNone]

\* the store is driven by one control thread, one operation at a time: the
\* caller takes the result of a call before it issues the next one
TakeResult == result # Idle /\ result' = Idle /\ UNCHANGED <<todoTbl, labelTbl, todoLabelTbl, Statuses, Labels, Todos, heap, everClosed, reopened, created, database, calls, overlapped, controller>>

\* the labels offered in the label form: the first seed label and the labels added since
LabelChoices == {1} \cup {l \in DOMAIN Labels : l > Len(SeedLabels)}

\* the edit form and the label form are opened on the oldest todo of the mirror
EditedTodos == {p \in DOMAIN heap : \A q \in DOMAIN heap : p <= q}

\* names typed for a label: a seed name and a new one
LabelNames == {"task", "busywork"}

\* Spec: the nine operations of the store, every storage call of which may fail
DoNewTodo == \E title \in {"", "t1"}, failAt \in 0..2 : result = Idle /\ Len(todoTbl) < MaxTodos /\ NewTodo(title, "", failAt) /\ UNCHANGED <<everClosed, reopened>>

DoUpdateTodo == \E todo \in EditedTodos \cup {Nil}, title \in {"", "t2"}, failAt \in 0..1 : result = Idle /\ UpdateTodo(todo, title, "d1", failAt) /\ UNCHANGED <<everClosed, reopened>>

DoChangeStatus == \E todo \in DOMAIN heap \cup {Nil}, oldStatus \in StatusNames, newStatus \in StatusNames, failAt \in 0..(MaxTodos + 2), rbFail \in BOOLEAN : result = Idle /\ Selected(todo, oldStatus) /\ ChangeStatus(todo, oldStatus, newStatus, failAt, rbFail) /\ UNCHANGED <<everClosed, reopened>>

DoMoveUp == \E todo \in DOMAIN heap \cup {Nil}, failAt \in 0..4, rbFail \in BOOLEAN : result = Idle /\ MoveUp(todo, failAt, rbFail) /\ UNCHANGED <<everClosed, reopened>>

DoMoveDown == \E todo \in DOMAIN heap \cup {Nil}, failAt \in 0..4, rbFail \in BOOLEAN : result = Idle /\ MoveDown(todo, failAt, rbFail) /\ UNCHANGED <<everClosed, reopened>>

DoNewLabel == \E name \in LabelNames, failAt \in 0..2 : result = Idle /\ Len(labelTbl) < Len(SeedLabels) + MaxNewLabels /\ NewLabel(name, failAt) /\ UNCHANGED <<everClosed, reopened>>

DoUpdateLabel == \E label \in LabelChoices, name \in LabelNames, failAt \in 0..1 : result = Idle /\ UpdateLabel(label, name, failAt) /\ UNCHANGED <<everClosed, reopened>>

DoAddTodoLabel == \E todo \in EditedTodos, label \in LabelChoices, failAt \in 0..1 : result = Idle /\ AddTodoLabel(todo, label, failAt) /\ UNCHANGED <<everClosed, reopened>>

DoRemoveTodoLabel == \E todo \in EditedTodos, label \in LabelChoices, failAt \in 0..1 : result = Idle /\ RemoveTodoLabel(todo, label, failAt) /\ UNCHANGED <<everClosed, reopened>>

Next ==
  \/ DoNewTodo
  \/ DoUpdateTodo
  \/ DoChangeStatus
  \/ DoMoveUp
  \/ DoMoveDown
  \/ DoNewLabel
  \/ DoUpdateLabel
  \/ DoAddTodoLabel
  \/ DoRemoveTodoLabel
  \/ TakeResult

Spec == Init /\ [][Next]_vars

\* SpecReload: a session of the operations of Spec on a fresh file, after which
\* the store is closed and opened again on the file, any number of times
DoReload == \E order \in LoadOrders(todoTbl) : result = Idle /\ NewDatabase(order) /\ reopened' = TRUE /\ UNCHANGED everClosed

NextReload ==
  \/ ~reopened /\ DoNewTodo
  \/ ~reopened /\ DoUpdateTodo
  \/ ~reopened /\ DoChangeStatus
  \/ ~reopened /\ DoMoveUp
  \/ ~reopened /\ DoMoveDown
  \/ ~reopened /\ DoNewLabel
  \/ ~reopened /\ DoUpdateLabel
  \/ ~reopened /\ DoAddTodoLabel
  \/ ~reopened /\ DoRemoveTodoLabel
  \/ DoReload
  \/ TakeResult

SpecReload == Init /\ [][NextReload]_vars

\* SpecLabels: labels are put on todos and taken off them, in any order
LabelsNewTodo == result = Idle /\ Len(todoTbl) < MaxLabelledTodos /\ NewTodo("t1", "", 0) /\ UNCHANGED <<everClosed, reopened>>

LabelsAddTodoLabel == \E todo \in DOMAIN heap, label \in 1..MaxTodoLabels, failAt \in 0..1 : result = Idle /\ AddTodoLabel(todo, label, failAt) /\ UNCHANGED <<everClosed, reopened>>

LabelsRemoveTodoLabel == \E todo \in DOMAIN heap, label \in 1..MaxTodoLabels, failAt \in 0..1 : result = Idle /\ RemoveTodoLabel(todo, label, failAt) /\ UNCHANGED <<everClosed, reopened>>

NextLabels ==
  \/ LabelsNewTodo
  \/ LabelsAddTodoLabel
  \/ LabelsRemoveTodoLabel
  \/ TakeResult

SpecLabels == Init /\ [][NextLabels]_vars

\* SpecRestart: todos are created and moved, the store is closed and opened
\* again, and the session goes on; a session moves todos as long as no todo
\* has a negative rank (localStatusChange logs "RANK < 0!")
NoNegativeRank == \A p \in DOMAIN heap : heap[p].Rank >= 0

RestartNewTodo == \E failAt \in 0..2 : result = Idle /\ Len(todoTbl) < MaxRestartTodos /\ NewTodo("t1", "", failAt) /\ UNCHANGED <<everClosed, reopened>>

RestartChangeStatus == \E todo \in DOMAIN heap, oldStatus \in StatusNames, newStatus \in StatusNames : result = Idle /\ NoNegativeRank /\ Selected(todo, oldStatus) /\ ChangeStatus(todo, oldStatus, newStatus, 0, FALSE) /\ UNCHANGED <<everClosed, reopened>>

NextRestart ==
  \/ RestartNewTodo
  \/ RestartChangeStatus
  \/ DoReload
  \/ TakeResult

SpecRestart == Init /\ [][NextRestart]_vars

\* SpecCap: enough todos to fill the closed list; todos are moved to closed and
\* from there to done and back, and no storage call fails
CapTargets == {StatusClosed, StatusDone}

CapNewTodo == result = Idle /\ Len(todoTbl) < MaxClosedTodos + MaxSpare /\ NewTodo("t1", "", 0) /\ UNCHANGED <<everClosed, reopened>>

CapChangeStatus == \E todo \in DOMAIN heap, oldStatus \in StatusNames, newStatus \in CapTargets : result = Idle /\ Selected(todo, oldStatus) /\ ChangeStatus(todo, oldStatus, newStatus, 0, FALSE) /\ UNCHANGED <<everClosed, reopened>>

NextCap ==
  \/ CapNewTodo
  \/ CapChangeStatus
  \/ TakeResult

SpecCap == Init /\ [][NextCap]_vars

\* SpecOpen: todos and labels are made in a first session; then the file is
\* opened again, any of the storage calls of NewDatabase failing, as often as
\* the caller tries
DoOpen == \E order \in LoadOrders(todoTbl), failAt \in 0..7 : result = Idle /\ OpenDatabase(order, failAt) /\ reopened' = TRUE /\ UNCHANGED everClosed

NextOpen ==
  \/ ~reopened /\ DoNewTodo
  \/ ~reopened /\ DoChangeStatus
  \/ ~reopened /\ DoNewLabel
  \/ ~reopened /\ DoUpdateLabel
  \/ ~reopened /\ DoAddTodoLabel
  \/ DoOpen
  \/ TakeResult

SpecOpen == Init /\ [][NextOpen]_vars

\* SpecRename: labels are created under one name and renamed, a seed name and
\* three new names being typed, and the store is closed and opened again at any
\* time
CreatedName == "busywork"

RenameNames == {"task", "busywork", "chore", "errand"}

RenameNewLabel == \E name \in {CreatedName}, failAt \in 0..2 : result = Idle /\ Len(labelTbl) < Len(SeedLabels) + MaxNewLabels /\ NewLabel(name, failAt) /\ UNCHANGED <<everClosed, reopened>>

RenameUpdateLabel == \E label \in LabelChoices, name \in RenameNames, failAt \in 0..1 : result = Idle /\ UpdateLabel(label, name, failAt) /\ UNCHANGED <<everClosed, reopened>>

NextRename ==
  \/ RenameNewLabel
  \/ RenameUpdateLabel
  \/ DoReload
  \/ TakeResult

SpecRename == Init /\ [][NextRename]_vars

\* SpecNil: SpecCap, with the four operations that test for a nil todo called
\* with one, in every state closed at capacity included
NilChangeStatus == \E oldStatus \in StatusNames, newStatus \in StatusNames : result = Idle /\ ChangeStatus(Nil, oldStatus, newStatus, 0, FALSE) /\ UNCHANGED <<everClosed, reopened>>

NilMoveUp == result = Idle /\ MoveUp(Nil, 0, FALSE) /\ UNCHANGED <<everClosed, reopened>>

NilMoveDown == result = Idle /\ MoveDown(Nil, 0, FALSE) /\ UNCHANGED <<everClosed, reopened>>

NilUpdateTodo == \E title \in {"", "t2"} : result = Idle /\ UpdateTodo(Nil, title, "d1", 0) /\ UNCHANGED <<everClosed, reopened>>

NextNil ==
  \/ CapNewTodo
  \/ CapChangeStatus
  \/ NilChangeStatus
  \/ NilMoveUp
  \/ NilMoveDown
  \/ NilUpdateTodo
  \/ TakeResult

SpecNil == Init /\ [][NextNil]_vars

\* SpecMoves: todos are created and moved between the five statuses
MovesNewTodo == result = Idle /\ Len(todoTbl) < MaxMovedTodos /\ NewTodo("t1", "", 0) /\ Observe /\ UNCHANGED reopened

MovesChangeStatus == \E todo \in DOMAIN heap, oldStatus \in StatusNames, newStatus \in StatusNames : result = Idle /\ Selected(todo, oldStatus) /\ ChangeStatus(todo, oldStatus, newStatus, 0, FALSE) /\ Observe /\ UNCHANGED reopened

NextMoves ==
  \/ MovesNewTodo
  \/ MovesChangeStatus
  \/ TakeResult

SpecMoves == Init /\ [][NextMoves]_vars

(* ---------------------------------------------------------------------- *)
(* The handlers, one storage call at a time                                *)
(* ---------------------------------------------------------------------- *)
\* no other caller's transaction holds the write lock of the file
LockFree(c) == \A d \in Callers \ {c} : ~calls[d].locked

\* the rows the transaction of caller c sees
Base(c) == IF calls[c].locked THEN calls[c].working ELSE todoTbl

\* caller c goes on to frame, leaving the todo table, the status lists and the
\* todo objects as given
StepTo(c, frame, tt, st, hp) ==
  /\ calls' = [calls EXCEPT ![c] = frame]
  /\ todoTbl' = tt
  /\ Statuses' = st
  /\ heap' = hp
  /\ overlapped' = (overlapped \/ \A d \in Callers : (IF d = c THEN frame.pc ELSE calls[d].pc) # "idle")
  /\ UNCHANGED <<labelTbl, todoLabelTbl, Labels, Todos, result, everClosed, reopened, created, database, controller>>

\* ChangeStatus up to the call of persistStatusChange: validateStatusChange
\* and the slice of the logging loop
CallChangeStatus(c, todo, oldStatus, newStatus) ==
  LET verr == validateStatusChange(todo, Statuses[oldStatus], Statuses[newStatus])
      f == [IdleFrame EXCEPT !.op = "ChangeStatus", !.todo = todo, !.oldStatus = oldStatus, !.newStatus = newStatus]
  IN  /\ calls[c].pc = "idle"
      /\ StepTo(c, IF verr # ErrNone THEN [f EXCEPT !.pc = "done", !.err = verr]
                   ELSE IF heap[todo].Rank + 1 > Len(Statuses[oldStatus].Todos) \/ heap[todo].Rank + 1 < 0 THEN [f EXCEPT !.pc = "done", !.err = Panic]
                   ELSE [f EXCEPT !.pc = "begin"], todoTbl, Statuses, heap)

\* MoveUp up to BeginTx, entered with frame f: the two tests, todos and prevTodo
EnterMoveUp(f, todo) ==
  IF todo = Nil THEN [f EXCEPT !.pc = "done", !.err = ErrNilTodo]
  ELSE IF heap[todo].Rank = 0 THEN [f EXCEPT !.todo = todo, !.pc = "done", !.err = ErrCantMoveFirstTodoUp]
  ELSE IF heap[todo].Rank - 1 < 0 \/ heap[todo].Rank - 1 >= Len(Statuses[heap[todo].Status].Todos) THEN [f EXCEPT !.todo = todo, !.pc = "done", !.err = Panic]
  ELSE [f EXCEPT !.todo = todo, !.oldStatus = heap[todo].Status, !.ptrs = <<Statuses[heap[todo].Status].Todos[heap[todo].Rank]>>, !.pc = "begin"]

CallMoveUp(c, todo) ==
  /\ calls[c].pc = "idle"
  /\ StepTo(c, EnterMoveUp([IdleFrame EXCEPT !.op = "MoveUp"], todo), todoTbl, Statuses, heap)

\* MoveDown: its two tests, then MoveUp of nextTodo
CallMoveDown(c, todo) ==
  LET f == [IdleFrame EXCEPT !.op = "MoveDown"]
  IN  /\ calls[c].pc = "idle"
      /\ StepTo(c, IF todo = Nil THEN [f EXCEPT !.pc = "done", !.err = ErrNilTodo]
                   ELSE IF heap[todo].Rank >= Len(Statuses[heap[todo].Status].Todos) - 1 THEN [f EXCEPT !.todo = todo, !.pc = "done", !.err = ErrCantMoveLastTodoDown]
                   ELSE IF heap[todo].Rank + 1 < 0 THEN [f EXCEPT !.todo = todo, !.pc = "done", !.err = Panic]
                   ELSE EnterMoveUp(f, Statuses[heap[todo].Status].Todos[heap[todo].Rank + 2]), todoTbl, Statuses, heap)

\* NewTodo up to the INSERT: the test of the title and rank := len(open.Todos)
CallNewTodo(c, title) ==
  LET f == [IdleFrame EXCEPT !.op = "NewTodo", !.title = title]
  IN  /\ calls[c].pc = "idle"
      /\ StepTo(c, IF title = "" THEN [f EXCEPT !.pc = "done", !.err = ErrEmptyTitle]
                   ELSE [f EXCEPT !.i = Len(Statuses[StatusOpen].Todos), !.pc = "insert"], todoTbl, Statuses, heap)

\* BeginTx tried a second time when it failed
BeginTx_RetryOnce(c, fail) ==
  LET f == [calls[c] EXCEPT !.io = Append(@, "BeginTx")]
  IN  /\ calls[c].pc = "begin"
      /\ StepTo(c, IF fail /\ calls[c].io = <<>> THEN f
                   ELSE IF fail THEN [f EXCEPT !.pc = "done", !.err = "error opening transaction"]
                   ELSE [f EXCEPT !.pc = IF f.op = "ChangeStatus" THEN "move" ELSE "rank1"], todoTbl, Statuses, heap)

\* d.conn.BeginTx
BeginTx(c, fail) ==
  LET f == [calls[c] EXCEPT !.io = Append(@, "BeginTx")]
  IN  /\ calls[c].pc = "begin"
      /\ StepTo(c, IF fail THEN [f EXCEPT !.pc = "done", !.err = "error opening transaction"]
                   ELSE [f EXCEPT !.pc = IF f.op = "ChangeStatus" THEN "move" ELSE "rank1"], todoTbl, Statuses, heap)

\* persistStatusChange: the UPDATE of status_id and rank, and the slice the
\* loop of the decrements ranges over
ExecMove(c, fail) ==
  LET f == [calls[c] EXCEPT !.io = Append(@, "Exec")]
      todo == f.todo
      oldStatus == Statuses[f.oldStatus]
      newStatus == Statuses[f.newStatus]
  IN  /\ calls[c].pc = "move"
      /\ LockFree(c)
      /\ StepTo(c, IF fail THEN [f EXCEPT !.pc = "rollback", !.err = "error updating todo"]
                   ELSE IF heap[todo].Rank + 1 > Len(oldStatus.Todos) \/ heap[todo].Rank + 1 < 0 THEN [f EXCEPT !.pc = "done", !.err = Panic]
                   ELSE LET toUpdate == SliceFrom(oldStatus.Todos, heap[todo].Rank + 1)
                        IN  [f EXCEPT !.working = UpdateStatusRank(Base(c), newStatus.id, Len(newStatus.Todos), heap[todo].id), !.locked = TRUE, !.ptrs = toUpdate, !.i = 1, !.pc = IF toUpdate = <<>> THEN "commit" ELSE "decrement"],
                todoTbl, Statuses, heap)

\* persistStatusChange: UPDATE todo SET rank=rank - 1 for the next todoToUpdate
ExecDecrement(c, fail) ==
  LET f == [calls[c] EXCEPT !.io = Append(@, "Exec")]
  IN  /\ calls[c].pc = "decrement"
      /\ LockFree(c)
      /\ StepTo(c, IF fail THEN [f EXCEPT !.pc = "rollback", !.err = "error updating todo rank"]
                   ELSE [f EXCEPT !.working = DecrementRank(Base(c), heap[f.ptrs[f.i]].id), !.locked = TRUE, !.i = @ + 1, !.pc = IF f.i = Len(f.ptrs) THEN "commit" ELSE "decrement"],
                todoTbl, Statuses, heap)

\* MoveUp: UPDATE todo SET rank = todo.Rank-1 WHERE id = todo.id
ExecRank1(c, fail) ==
  LET f == [calls[c] EXCEPT !.io = Append(@, "Exec")]
  IN  /\ calls[c].pc = "rank1"
      /\ LockFree(c)
      /\ StepTo(c, IF fail THEN [f EXCEPT !.pc = "rollback", !.err = "error updating todo"]
                   ELSE [f EXCEPT !.working = UpdateRank(Base(c), heap[f.todo].Rank - 1, heap[f.todo].id), !.locked = TRUE, !.pc = "rank2"],
                todoTbl, Statuses, heap)

\* MoveUp: UPDATE todo SET rank = prevTodo.Rank+1 WHERE id = prevTodo.id
ExecRank2(c, fail) ==
  LET f == [calls[c] EXCEPT !.io = Append(@, "Exec")]
      prevTodo == f.ptrs[1]
  IN  /\ calls[c].pc = "rank2"
      /\ LockFree(c)
      /\ StepTo(c, IF fail THEN [f EXCEPT !.pc = "rollback", !.err = "error updating todo"]
                   ELSE [f EXCEPT !.working = UpdateRank(Base(c), heap[prevTodo].Rank + 1, heap[prevTodo].id), !.locked = TRUE, !.pc = "commit"],
                todoTbl, Statuses, heap)

\* txn.Commit writing the objects before the rows are committed
Commit_WriteFirst(c, fail) ==
  LET f == [calls[c] EXCEPT !.io = Append(Append(@, "Write"), "Commit"), !.locked = FALSE, !.working = <<>>]
      l == localStatusChange(f.todo, Statuses[f.oldStatus], Statuses[f.newStatus])
  IN  /\ calls[c].pc = "commit"
      /\ IF f.op = "ChangeStatus"
         THEN StepTo(c, IF fail THEN [f EXCEPT !.pc = "done", !.err = "error committing changes"] ELSE [f EXCEPT !.committed = TRUE, !.pc = "done"], IF fail THEN todoTbl ELSE calls[c].working, l.Statuses, l.heap)
         ELSE StepTo(c, IF fail THEN [f EXCEPT !.pc = "done", !.err = "error committing changes"] ELSE [f EXCEPT !.committed = TRUE, !.pc = "swap"], IF fail THEN todoTbl ELSE calls[c].working, Statuses, heap)

\* txn.Commit: the rows of the transaction become the rows of the table
Commit(c, fail) ==
  LET f == [calls[c] EXCEPT !.io = Append(@, "Commit"), !.locked = FALSE, !.working = <<>>]
  IN  /\ calls[c].pc = "commit"
      /\ StepTo(c, IF fail THEN [f EXCEPT !.pc = "done", !.err = "error committing changes"]
                   ELSE [f EXCEPT !.committed = TRUE, !.pc = IF f.op = "ChangeStatus" THEN "local" ELSE "swap"],
                IF fail THEN todoTbl ELSE calls[c].working, Statuses, heap)

\* rollbackOnError: txn.Rollback
Rollback(c, rbFail) ==
  /\ calls[c].pc = "rollback"
  /\ StepTo(c, [calls[c] EXCEPT !.io = Append(@, "Rollback"), !.locked = FALSE, !.working = <<>>, !.err = rollbackOnError(rbFail, @), !.pc = "done"], todoTbl, Statuses, heap)

\* ChangeStatus: d.localStatusChange, on the objects as they are now
LocalStatusChange(c) ==
  LET f == [calls[c] EXCEPT !.io = Append(@, "Write"), !.pc = "done"]
      todo == f.todo
      oldStatus == Statuses[f.oldStatus]
      l == localStatusChange(todo, oldStatus, Statuses[f.newStatus])
  IN  /\ calls[c].pc = "local"
      /\ IF heap[todo].Rank + 1 > Len(oldStatus.Todos) \/ heap[todo].Rank + 1 < 0 THEN StepTo(c, [f EXCEPT !.err = Panic], todoTbl, Statuses, heap)
         ELSE IF heap[todo].Rank < 0 THEN StepTo(c, [f EXCEPT !.err = Panic], todoTbl, Statuses, DecrementLocal(heap, oldStatus.Todos, Len(oldStatus.Todos)))
         ELSE StepTo(c, f, todoTbl, l.Statuses, l.heap)

\* MoveUp: the swap in todos and the two ranks
LocalSwap(c) ==
  LET f == [calls[c] EXCEPT !.io = Append(@, "Write"), !.pc = "done"]
      todo == f.todo
      prevTodo == f.ptrs[1]
      rank == heap[todo].Rank
      todos == Statuses[f.oldStatus].Todos
  IN  /\ calls[c].pc = "swap"
      /\ IF rank - 1 < 0 \/ rank >= Len(todos) THEN StepTo(c, [f EXCEPT !.err = Panic], todoTbl, Statuses, heap)
         ELSE StepTo(c, f, todoTbl, [Statuses EXCEPT ![f.oldStatus].Todos = Swap(todos, rank - 1, rank)], [heap EXCEPT ![todo].Rank = @ - 1, ![prevTodo].Rank = @ + 1])

\* NewTodo: the INSERT, committed by itself; the row it made has the next id
ExecInsert(c, fail) ==
  LET f == [calls[c] EXCEPT !.io = Append(@, "Exec")]
      inserted == InsertTodo(todoTbl, f.title, "", Statuses[StatusOpen].id, f.i)
  IN  /\ calls[c].pc = "insert"
      /\ LockFree(c)
      /\ StepTo(c, IF fail THEN [f EXCEPT !.pc = "done", !.err = "error adding todo"] ELSE [f EXCEPT !.todo = Len(inserted), !.pc = "lastid"], IF fail THEN todoTbl ELSE inserted, Statuses, heap)

\* NewTodo: result.LastInsertId()
LastInsertId(c, fail) ==
  LET f == [calls[c] EXCEPT !.io = Append(@, "LastInsertId")]
  IN  /\ calls[c].pc = "lastid"
      /\ StepTo(c, IF fail THEN [f EXCEPT !.pc = "done", !.err = "error getting id of new todo"] ELSE [f EXCEPT !.pc = "append"], todoTbl, Statuses, heap)

\* NewTodo: open.Todos = append(open.Todos, todo), the todo having the rank
\* computed before the INSERT
LocalAppend(c) ==
  LET f == [calls[c] EXCEPT !.io = Append(@, "Write"), !.pc = "done"]
      todo == [id |-> f.todo, Title |-> f.title, Description |-> "", Labels |-> <<>>, Rank |-> f.i, Status |-> StatusOpen]
  IN  /\ calls[c].pc = "append"
      /\ StepTo(c, f, todoTbl, [Statuses EXCEPT ![StatusOpen].Todos = Append(@, f.todo)], [p \in DOMAIN heap \cup {f.todo} |-> IF p = f.todo THEN todo ELSE heap[p]])

\* a handler with one storage call, begun and ended in one step
CallWhole(c, op, out) ==
  /\ calls[c].pc = "idle"
  /\ calls' = [calls EXCEPT ![c] = [IdleFrame EXCEPT !.op = op, !.pc = "done", !.io = out.io, !.err = out.err]]
  /\ todoTbl' = out.todoTbl
  /\ labelTbl' = out.labelTbl
  /\ todoLabelTbl' = out.todoLabelTbl
  /\ Statuses' = out.Statuses
  /\ Labels' = out.Labels
  /\ heap' = out.heap
  /\ overlapped' = (overlapped \/ \A d \in Callers \ {c} : calls[d].pc # "idle")
  /\ UNCHANGED <<Todos, result, everClosed, reopened, created, database, controller>>

\* the handler returns to its caller
ReturnCall(c) ==
  /\ calls[c].pc = "done"
  /\ calls' = [calls EXCEPT ![c] = IdleFrame]
  /\ result' = [op |-> calls[c].op, err |-> calls[c].err]
  /\ created' = IF calls[c].op = "NewTodo" /\ calls[c].err = ErrNone THEN created \cup {calls[c].todo} ELSE created
  /\ UNCHANGED <<todoTbl, labelTbl, todoLabelTbl, Statuses, Labels, Todos, heap, everClosed, reopened, database, overlapped, controller>>

\* SpecSteps: one caller, one call at a time, every storage call of which may fail
Main == 1

StepsNewTodo == \E title \in {"", "t1"} : result = Idle /\ Len(todoTbl) < MaxTodos /\ CallNewTodo(Main, title)

StepsChangeStatus == \E todo \in DOMAIN heap \cup {Nil}, oldStatus \in StatusNames, newStatus \in StatusNames : result = Idle /\ Selected(todo, oldStatus) /\ CallChangeStatus(Main, todo, oldStatus, newStatus)

StepsMoveUp == \E todo \in DOMAIN heap \cup {Nil} : result = Idle /\ CallMoveUp(Main, todo)

StepsMoveDown == \E todo \in DOMAIN heap \cup {Nil} : result = Idle /\ CallMoveDown(Main, todo)

StepsUpdateTodo == \E todo \in EditedTodos \cup {Nil}, title \in {"", "t2"}, failAt \in 0..1 : result = Idle /\ failAt <= (IF todo = Nil \/ title = "" THEN 0 ELSE 1) /\ CallWhole(Main, "UpdateTodo", UpdateTodoOutcome(todo, title, "d1", failAt))

StepsAddTodoLabel == \E todo \in EditedTodos, label \in LabelChoices, failAt \in 0..1 : result = Idle /\ failAt <= (IF <<heap[todo].id, Labels[label].id>> \in todoLabelTbl THEN 0 ELSE 1) /\ CallWhole(Main, "AddTodoLabel", AddTodoLabelOutcome(todo, label, failAt))

StepsRemoveTodoLabel == \E todo \in EditedTodos, label \in LabelChoices, failAt \in 0..1 : result = Idle /\ CallWhole(Main, "RemoveTodoLabel", RemoveTodoLabelOutcome(todo, label, failAt))

StepsStorageCall == \E fail \in BOOLEAN : BeginTx(Main, fail) \/ ExecMove(Main, fail) \/ ExecDecrement(Main, fail) \/ ExecRank1(Main, fail) \/ ExecRank2(Main, fail) \/ Commit(Main, fail) \/ Rollback(Main, fail) \/ ExecInsert(Main, fail) \/ LastInsertId(Main, fail)

StepsWrite == LocalStatusChange(Main) \/ LocalSwap(Main) \/ LocalAppend(Main)

NextSteps ==
  \/ StepsNewTodo
  \/ StepsChangeStatus
  \/ StepsMoveUp
  \/ StepsMoveDown
  \/ StepsUpdateTodo
  \/ StepsAddTodoLabel
  \/ StepsRemoveTodoLabel
  \/ StepsStorageCall
  \/ StepsWrite
  \/ ReturnCall(Main)
  \/ TakeResult

SpecSteps == Init /\ [][NextSteps]_vars

\* SpecStepsFair: SpecSteps, every storage call returning and the handler
\* going on to its next statement
SpecStepsFair == SpecSteps /\ WF_vars(StepsStorageCall) /\ WF_vars(StepsWrite) /\ WF_vars(ReturnCall(Main))

\* SpecRace: two callers use the store with no mutex between them; their
\* handlers interleave at every storage call and every write to the objects.
\* Calls begin until two of them have been in progress at the same time.

\* the calls of NewTodo that have not yet inserted their row
Inserting == {c \in Callers : calls[c].pc = "insert"}

RaceNewTodo == \E c \in Callers : ~overlapped /\ Len(todoTbl) + Cardinality(Inserting) < MaxRaceTodos /\ CallNewTodo(c, "t1")

RaceChangeStatus == \E c \in Callers, todo \in DOMAIN heap, oldStatus \in StatusNames, newStatus \in CapTargets : ~overlapped /\ Selected(todo, oldStatus) /\ CallChangeStatus(c, todo, oldStatus, newStatus)

RaceStorageCall == \E c \in Callers, fail \in BOOLEAN : BeginTx(c, fail) \/ ExecMove(c, fail) \/ ExecDecrement(c, fail) \/ Commit(c, fail) \/ Rollback(c, fail) \/ ExecInsert(c, fail) \/ LastInsertId(c, fail)

RaceWrite == \E c \in Callers : LocalStatusChange(c) \/ LocalAppend(c)

RaceReturn == \E c \in Callers : ReturnCall(c)

NextRace ==
  \/ RaceNewTodo
  \/ RaceChangeStatus
  \/ RaceStorageCall
  \/ RaceWrite
  \/ RaceReturn
  \/ TakeResult

SpecRace == Init /\ [][NextRace]_vars

(* ---------------------------------------------------------------------- *)
(* Properties                                                              *)
(* ---------------------------------------------------------------------- *)
\* the todo rows of a status
RowsOf(s) == {i \in DOMAIN todoTbl : todoTbl[i].status_id = status[s]}

\* the last call returned err from op
Returned(op, err) == result = [op |-> op, err |-> err]

\* the pairs validateStatusChange is documented to reject
Forbidden == {<<StatusClosed, StatusOpen>>, <<StatusOpen, StatusDone>>, <<StatusOnHold, StatusDone>>}

\* C1: whatever the store operations returned, the Rank values of the todos
\* of every status list are exactly 0 .. n-1, n the length of the list.
C1_MirrorRanksDense == \A s \in StatusNames : {heap[Statuses[s].Todos[i]].Rank : i \in DOMAIN Statuses[s].Todos} = 0..(Len(Statuses[s].Todos) - 1)

\* a todo was moved out of open from in front of another, which now has rank 0
C1_Witness == Returned("ChangeStatus", ErrNone) /\ Statuses[StatusOpen].Todos = <<2>> /\ Len(Statuses[StatusOnHold].Todos) = 1 /\ heap[2].Rank = 0

\* C2: in the committed tables the ranks of the rows of every status are
\* exactly 0 .. n-1, at every point of every execution.
C2_DurableRanksDense == \A s \in StatusNames : {todoTbl[i].rank : i \in RowsOf(s)} = 0..(Cardinality(RowsOf(s)) - 1)

\* C3: after every operation, failed or not, every status list is the rows of
\* that status in rank order, and every todo object equals its row.
C3_MirrorAgreesWithDurable ==
  \A s \in StatusNames :
    /\ Len(Statuses[s].Todos) = Cardinality(RowsOf(s))
    /\ \A i \in DOMAIN Statuses[s].Todos :
         LET todo == heap[Statuses[s].Todos[i]]
         IN  /\ todo.id \in RowsOf(s)
             /\ todoTbl[todo.id].rank = i - 1
             /\ todo.Rank = i - 1
             /\ todo.Status = s
             /\ todo.Title = todoTbl[todo.id].title
             /\ todo.Description = todoTbl[todo.id].description

\* C4: an operation that returns an error leaves Statuses, Labels, Todos and
\* every Todo object as they were before the call.
C4_ErrorLeavesMirror == [][(result' # Idle /\ result'.err # ErrNone) => UNCHANGED mirror]_vars

\* the commit of a status change failed, with a todo behind the moved one
C4_Witness == Returned("ChangeStatus", "error committing changes") /\ Len(Statuses[StatusOpen].Todos) = 2

\* C5: the closed list never holds more than MaxClosedTodos todos, in the
\* mirror and in the todo table.
C5_ClosedAtMostMax == Len(Statuses[StatusClosed].Todos) <= MaxClosedTodos /\ Cardinality(RowsOf(StatusClosed)) <= MaxClosedTodos

\* the move that filled the closed list, with a todo left outside it
C5_Witness == Returned("ChangeStatus", ErrNone) /\ Len(Statuses[StatusClosed].Todos) = MaxClosedTodos /\ Cardinality(RowsOf(StatusClosed)) = MaxClosedTodos /\ Len(todoTbl) > MaxClosedTodos

\* C6: ChangeStatus into closed while closed holds MaxClosedTodos todos returns
\* ErrMaxClosedTodos whatever the source status, and changes neither the
\* tables nor the mirror.
C6_FullClosedRejects == [][\A todo \in DOMAIN heap, oldStatus \in StatusNames : (Len(Statuses[StatusClosed].Todos) >= MaxClosedTodos /\ ChangeStatus(todo, oldStatus, StatusClosed, 0, FALSE)) => (result'.err = ErrMaxClosedTodos /\ UNCHANGED <<durable, mirror>>)]_vars

\* a move into the full closed list was rejected while a todo waits in done
C6_Witness == Returned("ChangeStatus", ErrMaxClosedTodos) /\ Len(Statuses[StatusClosed].Todos) = MaxClosedTodos /\ Len(Statuses[StatusDone].Todos) = 1 /\ Len(Statuses[StatusOpen].Todos) = 0

\* C7: ChangeStatus of a todo to the status it is in returns
\* ErrInvalidTodoMoveNoStatusChange and changes nothing, for each of the five
\* statuses, closed holding MaxClosedTodos todos included.
C7_SameStatusRejected == [][\A todo \in DOMAIN heap, s \in StatusNames : (todo \in Range(Statuses[s].Todos) /\ ChangeStatus(todo, s, s, 0, FALSE)) => (result'.err = ErrInvalidTodoMoveNoStatusChange /\ UNCHANGED <<durable, mirror>>)]_vars

\* C8: ChangeStatus from closed to open, from open to done and from on_hold to
\* done returns ErrInvalidTodoMove and changes neither the tables nor the mirror.
C8_ForbiddenRejected == [][\A todo \in DOMAIN heap, pair \in Forbidden : ChangeStatus(todo, pair[1], pair[2], 0, FALSE) => (result'.err = ErrInvalidTodoMove /\ UNCHANGED <<durable, mirror>>)]_vars

\* a move to done was rejected while every todo is in on_hold, done or abandoned
C8_Witness == Returned("ChangeStatus", ErrInvalidTodoMove) /\ Len(Statuses[StatusOnHold].Todos) >= 1 /\ Len(Statuses[StatusOpen].Todos) = 0 /\ Len(Statuses[StatusClosed].Todos) = 0 /\ heap # <<>>

C10_DoneWasClosed == \A p \in DOMAIN heap : heap[p].Status = StatusDone => p \in everClosed

\* the successful status changes of todo from status S to status D
Moved(todo, S, D) == todo \in Range(Statuses[S].Todos) /\ ChangeStatus(todo, S, D, 0, FALSE) /\ result'.err = ErrNone

\* C11: after a successful ChangeStatus of a todo from S to D the todo is the
\* last of D with the rank D's length had before the call, it is no longer in
\* S, and every todo of S that was ranked after it has its rank reduced by
\* one, in the Todo objects and in the rows of table todo alike.
C11_MoveAppendsAndCloses ==
  [][\A todo \in DOMAIN heap, S \in StatusNames, D \in StatusNames :
       Moved(todo, S, D) =>
         LET n == Len(Statuses[D].Todos)
         IN  /\ Len(Statuses'[D].Todos) = n + 1
             /\ Statuses'[D].Todos[n + 1] = todo
             /\ heap'[todo].Rank = n
             /\ todoTbl'[heap[todo].id].rank = n
             /\ todoTbl'[heap[todo].id].status_id = status[D]
             /\ todo \notin Range(Statuses'[S].Todos)
             /\ \A q \in Range(Statuses[S].Todos) :
                  heap[q].Rank > heap[todo].Rank =>
                    /\ heap'[q].Rank = heap[q].Rank - 1
                    /\ todoTbl'[heap[q].id].rank = todoTbl[heap[q].id].rank - 1]_vars

\* the first of two open todos was moved to closed; the row of the other has rank 0
C11_Witness == Returned("ChangeStatus", ErrNone) /\ Statuses[StatusOpen].Todos = <<2>> /\ Statuses[StatusClosed].Todos = <<1>> /\ todoTbl[2].rank = 0 /\ todoTbl[1].rank = 0

C13_NewTodoAppendsToOpen ==
  [][\A title \in {"", "t1"} :
       (NewTodo(title, "", 0) /\ result'.err = ErrNone) =>
         LET n == Len(Statuses[StatusOpen].Todos)
         IN  \E p \in DOMAIN heap' \ DOMAIN heap :
               /\ DOMAIN heap' = DOMAIN heap \cup {p}
               /\ Statuses'[StatusOpen].Todos = Append(Statuses[StatusOpen].Todos, p)
               /\ heap'[p].Rank = n
               /\ heap'[p].Status = StatusOpen
               /\ heap'[p].Labels = <<>>
               /\ heap'[p].Title = title
               /\ todoTbl' = Append(todoTbl, [title |-> title, description |-> "", status_id |-> status[StatusOpen], rank |-> n])
               /\ heap'[p].id = Len(todoTbl')
               /\ \A q \in DOMAIN heap : heap'[q] = heap[q]
               /\ \A s \in StatusNames \ {StatusOpen} : Statuses'[s] = Statuses[s]
               /\ UNCHANGED <<labelTbl, todoLabelTbl, Labels>>]_vars

\* a second todo was created behind the first in open
C13_Witness == Returned("NewTodo", ErrNone) /\ Statuses[StatusOpen].Todos = <<1, 2>> /\ heap[2].Rank = 1 /\ heap[2].Labels = <<>>

\* C14: NewTodo and UpdateTodo with the empty title return ErrEmptyTitle and
\* create or change no todo, so that every todo object and every row of table
\* todo has a non-empty title.
C14_EmptyTitleRejected ==
  /\ [](\A p \in DOMAIN heap : heap[p].Title # "")
  /\ [](\A i \in DOMAIN todoTbl : todoTbl[i].title # "")
  /\ [][(NewTodo("", "", 0) \/ \E todo \in DOMAIN heap : UpdateTodo(todo, "", "d1", 0)) => (result'.err = ErrEmptyTitle /\ UNCHANGED <<durable, mirror>>)]_vars

\* UpdateTodo of a todo with the empty title was rejected
C14_Witness == Returned("UpdateTodo", ErrEmptyTitle) /\ heap # <<>> /\ \A p \in DOMAIN heap : heap[p].Title = "t1"

\* the list todo is in, and whether todo is its last element
ListOf(todo) == Statuses[heap[todo].Status].Todos

IsLast(todo) == Len(ListOf(todo)) > 0 /\ ListOf(todo)[Len(ListOf(todo))] = todo

Exchanged(up, down) ==
  LET r == heap[up].Rank
      s == heap[up].Status
  IN  /\ heap[down].Rank = r - 1 /\ heap[down].Status = s
      /\ heap' = [heap EXCEPT ![up].Rank = r - 1, ![down].Rank = r]
      /\ Statuses' = [Statuses EXCEPT ![s].Todos = [@ EXCEPT ![r] = up, ![r + 1] = down]]
      /\ Statuses[s].Todos[r] = down /\ Statuses[s].Todos[r + 1] = up
      /\ todoTbl' = [todoTbl EXCEPT ![heap[up].id].rank = r - 1, ![heap[down].id].rank = r]
      /\ todoTbl[heap[up].id].rank = r /\ todoTbl[heap[down].id].rank = r - 1
      /\ UNCHANGED <<labelTbl, todoLabelTbl, Labels, Todos>>

C17_MoveDownIsMoveUpOfNext ==
  \A s \in StatusNames :
    \A i \in 1..(Len(Statuses[s].Todos) - 1) :
      \A failAt \in 0..4, rbFail \in BOOLEAN :
        MoveDownOutcome(Statuses[s].Todos[i], failAt, rbFail) = MoveUpOutcome(Statuses[s].Todos[i + 1], failAt, rbFail)

\* the first of two todos of a status was moved down
C17_Witness == Returned("MoveDown", ErrNone) /\ \E s \in StatusNames : Len(Statuses[s].Todos) = 2 /\ heap[Statuses[s].Todos[1]].id > heap[Statuses[s].Todos[2]].id

\* the ids, and the ranks, of the todos of a list of todo objects
IDs(todos, hp) == [i \in DOMAIN todos |-> hp[todos[i]].id]

Ranks(todos, hp) == [i \in DOMAIN todos |-> hp[todos[i]].Rank]

\* the ids of a list of label objects
LabelIDs(labels, lb) == [i \in DOMAIN labels |-> lb[labels[i]].id]

\* C18: closing the store and opening it again on the same file gives, for
\* every status, the same todos in the same order with the same ranks, and
\* the same number of todos.
C18_ReloadKeepsOrder ==
  [][\A order \in LoadOrders(todoTbl) :
       NewDatabase(order) =>
         /\ \A s \in StatusNames :
              /\ IDs(Statuses'[s].Todos, heap') = IDs(Statuses[s].Todos, heap)
              /\ Ranks(Statuses'[s].Todos, heap') = Ranks(Statuses[s].Todos, heap)
         /\ Cardinality(DOMAIN heap') = Cardinality(DOMAIN heap)]_vars

\* C19: closing the store and opening it again on the same file gives every
\* todo the labels it had, in the order in which they were added.
C19_ReloadKeepsLabelOrder ==
  [][\A order \in LoadOrders(todoTbl) :
       NewDatabase(order) =>
         \A p \in DOMAIN heap :
           \E q \in DOMAIN heap' :
             /\ heap'[q].id = heap[p].id
             /\ LabelIDs(heap'[q].Labels, Labels') = LabelIDs(heap[p].Labels, Labels)]_vars

\* the error of the INSERT that UNIQUE(todo_id, label_id) rejects
ErrDuplicateTodoLabel == "error adding label to todo: UNIQUE constraint failed: todo_label.todo_id, todo_label.label_id"

\* C20: AddTodoLabel of a label the todo already carries fails on the UNIQUE
\* constraint and leaves the labels of the todo as they were; a successful
\* AddTodoLabel puts the label at the end of the labels of the todo; no todo
\* ever carries the same label twice.
C20_NoDuplicateLabels ==
  /\ [](\A p \in DOMAIN heap : \A i \in DOMAIN heap[p].Labels, j \in DOMAIN heap[p].Labels : i # j => Labels[heap[p].Labels[i]].id # Labels[heap[p].Labels[j]].id)
  /\ [][\A todo \in DOMAIN heap, label \in DOMAIN Labels :
         /\ (label \in Range(heap[todo].Labels) /\ AddTodoLabel(todo, label, 0)) => (result'.err = ErrDuplicateTodoLabel /\ UNCHANGED <<durable, mirror>>)
         /\ (AddTodoLabel(todo, label, 0) /\ result'.err = ErrNone) =>
              /\ heap'[todo].Labels = Append(heap[todo].Labels, label)
              /\ todoLabelTbl' = todoLabelTbl \cup {<<heap[todo].id, Labels[label].id>>}
              /\ \A q \in DOMAIN heap \ {todo} : heap'[q].Labels = heap[q].Labels]_vars

\* a label was added a second time to a todo that carries two labels
C20_Witness == Returned("AddTodoLabel", ErrDuplicateTodoLabel) /\ \E p \in DOMAIN heap : Len(heap[p].Labels) = 2 /\ Cardinality(todoLabelTbl) = 2

\* C21: a successful RemoveTodoLabel of a label the todo carries takes exactly
\* that label out of the labels of the todo and keeps the others in their
\* order, wherever the label was; the labels of the other todos stay.
C21_RemoveKeepsOrder ==
  [][\A todo \in DOMAIN heap, label \in DOMAIN Labels :
       (label \in Range(heap[todo].Labels) /\ RemoveTodoLabel(todo, label, 0) /\ result'.err = ErrNone) =>
         /\ heap'[todo].Labels = SelectSeq(heap[todo].Labels, LAMBDA l : l # label)
         /\ Len(heap'[todo].Labels) = Len(heap[todo].Labels) - 1
         /\ todoLabelTbl' = todoLabelTbl \ {<<heap[todo].id, Labels[label].id>>}
         /\ \A q \in DOMAIN heap \ {todo} : heap'[q] = heap[q]
         /\ heap'[todo] = [heap[todo] EXCEPT !.Labels = heap'[todo].Labels]
         /\ UNCHANGED <<todoTbl, labelTbl, Statuses, Labels, Todos>>]_vars

\* a label was taken off the first todo, which keeps two, while the second carries one
C21_Witness == Returned("RemoveTodoLabel", ErrNone) /\ DOMAIN heap = {1, 2} /\ heap[1].Labels = <<3, 1>> /\ heap[2].Labels = <<2>>

\* C22: opening the store again on its file, after whatever operations, leaves
\* every row of every table as it was: the seed rows are inserted only where
\* absent, none is duplicated or written over, no todo changes; the store
\* then has the five statuses and one label for every label row, and a store
\* opened again on a fresh file has 5 statuses, 9 labels and no todo.
C22_BootstrapIdempotent ==
  /\ [][\A order \in LoadOrders(todoTbl) :
         NewDatabase(order) =>
           /\ UNCHANGED <<todoTbl, labelTbl, todoLabelTbl>>
           /\ DOMAIN Statuses' = StatusNames
           /\ \A n \in StatusNames : Statuses'[n].id = status[n] /\ Statuses'[n].Name = n
           /\ Len(Labels') = Len(labelTbl)
           /\ \A i \in DOMAIN Labels' : Labels'[i].Name = labelTbl[Labels'[i].id]]_vars
  /\ []((Returned("NewDatabase", ErrNone) /\ todoTbl = <<>> /\ Len(labelTbl) = Len(SeedLabels)) => (Cardinality(DOMAIN Statuses) = 5 /\ Len(Labels) = 9 /\ Todos = <<>> /\ heap = <<>> /\ \A n \in StatusNames : Statuses[n].Todos = <<>>))

\* the store was opened again after the first seed label was renamed, the old
\* name was given to a new label and a todo was created
C22_Witness == Returned("NewDatabase", ErrNone) /\ reopened /\ Len(labelTbl) = 10 /\ labelTbl[1] = "busywork" /\ labelTbl[10] = "task" /\ Len(todoTbl) >= 1 /\ Len(Labels) = 10

\* C23: in every state the todo at index i of the list of a status has rank i
\* and that status as its Status, and every todo object is in exactly one
\* list, exactly once.
C23_RankIsIndex ==
  /\ \A s \in StatusNames : \A i \in DOMAIN Statuses[s].Todos : heap[Statuses[s].Todos[i]].Rank = i - 1 /\ heap[Statuses[s].Todos[i]].Status = s
  /\ \A p \in DOMAIN heap : Cardinality({<<s, i>> \in StatusNames \X (1..Len(todoTbl)) : i \in DOMAIN Statuses[s].Todos /\ Statuses[s].Todos[i] = p}) = 1

\* the todos that are in the list of some status
Listed == UNION {Range(Statuses[s].Todos) : s \in StatusNames}

C25_UpdateTodoFrame ==
  [][\A todo \in DOMAIN heap, title \in {"", "t2"} :
       (UpdateTodo(todo, title, "d1", 0) /\ result'.err = ErrNone) =>
         /\ heap' = [heap EXCEPT ![todo].Title = title, ![todo].Description = "d1"]
         /\ todoTbl' = [todoTbl EXCEPT ![heap[todo].id].title = title, ![heap[todo].id].description = "d1"]
         /\ UNCHANGED <<labelTbl, todoLabelTbl, Statuses, Labels, Todos>>]_vars

\* the todo edited is the second of open and carries a label
C25_Witness == Returned("UpdateTodo", ErrNone) /\ Statuses[StatusOpen].Todos = <<2, 1>> /\ heap[1].Title = "t2" /\ heap[1].Rank = 1 /\ todoTbl[1].rank = 1 /\ heap[1].Labels = <<1>>

\* the errors of validateStatusChange
ValidationErrors == {ErrNilTodo, ErrInvalidTodoMoveNoStatusChange, ErrMaxClosedTodos, ErrInvalidTodoMove}

\* C26: a ChangeStatus call that returns an error of validateStatusChange has
\* issued no storage call: it began no transaction and executed no statement,
\* whatever the todo and the two statuses, whether the storage works or not;
\* every other call begins a transaction.
C26_ValidationBeforeStorage ==
  \A todo \in DOMAIN heap \cup {Nil}, oldStatus \in StatusNames, newStatus \in StatusNames, failAt \in 0..1 :
    (todo = Nil \/ todo \in Range(Statuses[oldStatus].Todos)) =>
      LET out == ChangeStatusOutcome(todo, oldStatus, newStatus, failAt, FALSE)
      IN  IF validateStatusChange(todo, Statuses[oldStatus], Statuses[newStatus]) # ErrNone
          THEN out.err \in ValidationErrors /\ out.io = <<>> /\ out.todoTbl = todoTbl
          ELSE out.err \notin ValidationErrors /\ out.io # <<>>

\* a move into the full closed list was rejected while a todo waits in open
C26_Witness == Returned("ChangeStatus", ErrMaxClosedTodos) /\ Len(Statuses[StatusClosed].Todos) = MaxClosedTodos /\ Len(Statuses[StatusOpen].Todos) = 1 /\ Len(Statuses[StatusDone].Todos) = 0

\* the calls with an empty title or a nil todo return their error having
\* issued no storage call
LocalChecksNoIO ==
  /\ NewTodoOutcome("", "", 0).err = ErrEmptyTitle /\ NewTodoOutcome("", "", 0).io = <<>>
  /\ \A todo \in DOMAIN heap : UpdateTodoOutcome(todo, "", "d1", 0).err = ErrEmptyTitle /\ UpdateTodoOutcome(todo, "", "d1", 0).io = <<>>
  /\ \A title \in {"", "t2"} : UpdateTodoOutcome(Nil, title, "d1", 0).err = ErrNilTodo /\ UpdateTodoOutcome(Nil, title, "d1", 0).io = <<>>
  /\ MoveUpOutcome(Nil, 0, FALSE).err = ErrNilTodo /\ MoveUpOutcome(Nil, 0, FALSE).io = <<>>
  /\ MoveDownOutcome(Nil, 0, FALSE).err = ErrNilTodo /\ MoveDownOutcome(Nil, 0, FALSE).io = <<>>
  /\ \A oldStatus \in StatusNames, newStatus \in StatusNames : ChangeStatusOutcome(Nil, oldStatus, newStatus, 0, FALSE).err = ErrNilTodo /\ ChangeStatusOutcome(Nil, oldStatus, newStatus, 0, FALSE).io = <<>>

\* C27, as claimed: a call that fails for an empty title, a nil todo or a
\* label the todo already carries has issued no storage call.
C27_InputErrorsNoIO ==
  /\ LocalChecksNoIO
  /\ \A todo \in DOMAIN heap, label \in DOMAIN Labels :
       label \in Range(heap[todo].Labels) => (AddTodoLabelOutcome(todo, label, 0).err # ErrNone /\ AddTodoLabelOutcome(todo, label, 0).io = <<>>)

\* C27, as the code has it: a call that fails for an empty title or a nil todo
\* has issued no storage call; AddTodoLabel of a label the todo already
\* carries issues its INSERT, which UNIQUE(todo_id, label_id) rejects, and
\* that one statement changes nothing.
C27_DuplicateFoundByInsert ==
  /\ LocalChecksNoIO
  /\ \A todo \in DOMAIN heap, label \in DOMAIN Labels :
       label \in Range(heap[todo].Labels) =>
         LET out == AddTodoLabelOutcome(todo, label, 0)
         IN  out.err = ErrDuplicateTodoLabel /\ out.io = <<"Exec">> /\ out.todoLabelTbl = todoLabelTbl /\ out.heap = heap /\ out.todoTbl = todoTbl /\ out.labelTbl = labelTbl

\* a label was added a second time to a todo that carries this label only
C27_Witness == Returned("AddTodoLabel", ErrDuplicateTodoLabel) /\ Cardinality(todoLabelTbl) = 1 /\ \E p \in DOMAIN heap : Len(heap[p].Labels) = 1

\* C28: ChangeStatus, MoveUp, MoveDown and UpdateTodo called with a nil todo
\* return ErrNilTodo having issued no storage call and changed nothing, for
\* ChangeStatus whatever the two statuses are (the same one, closed at
\* capacity, a forbidden pair); and no step that returns ErrNilTodo changes a
\* stored row or an in-memory list.
C28_NilTodoRejected ==
  /\ [](/\ \A oldStatus \in StatusNames, newStatus \in StatusNames, failAt \in 0..1 :
             ChangeStatusOutcome(Nil, oldStatus, newStatus, failAt, FALSE) = Untouched(ErrNilTodo, <<>>)
        /\ \A failAt \in 0..1 : MoveUpOutcome(Nil, failAt, FALSE) = Untouched(ErrNilTodo, <<>>)
        /\ \A failAt \in 0..1 : MoveDownOutcome(Nil, failAt, FALSE) = Untouched(ErrNilTodo, <<>>)
        /\ \A title \in {"", "t2"}, failAt \in 0..1 : UpdateTodoOutcome(Nil, title, "d1", failAt) = Untouched(ErrNilTodo, <<>>))
  /\ [][result'.err = ErrNilTodo => UNCHANGED <<durable, mirror>>]_vars

\* ChangeStatus returned ErrNilTodo while closed was at capacity
C28_Witness == Returned("ChangeStatus", ErrNilTodo) /\ Len(Statuses[StatusClosed].Todos) = MaxClosedTodos

\* the UNIQUE error of label.name, as NewLabel and UpdateLabel wrap it
ErrDuplicateLabelName == {"error adding label: UNIQUE constraint failed: label.name", "error updating label: UNIQUE constraint failed: label.name"}

\* name is the name of a label other than the one Labels[label] points to
UsedByAnother(label, name) ==
  \/ \E other \in DOMAIN Labels : other # label /\ Labels[other].Name = name
  \/ \E id \in DOMAIN labelTbl : id # Labels[label].id /\ labelTbl[id] = name

\* C29: no two rows of the label table and no two labels of the Labels list
\* have the same name; NewLabel with a name in use, and UpdateLabel with the
\* name of another label, fail and leave the table, the list and every name
\* as they were.
C29_LabelNamesUnique ==
  /\ \A i \in DOMAIN labelTbl, j \in DOMAIN labelTbl : labelTbl[i] = labelTbl[j] => i = j
  /\ \A i \in DOMAIN Labels, j \in DOMAIN Labels : Labels[i].Name = Labels[j].Name => i = j
  /\ \A name \in Range(labelTbl) \cup {Labels[l].Name : l \in DOMAIN Labels} :
       LET out == NewLabelOutcome(name, 0)
       IN  out.err \in ErrDuplicateLabelName /\ out.Labels = Labels /\ out.labelTbl = labelTbl
  /\ \A label \in DOMAIN Labels, name \in Range(labelTbl) \cup LabelNames :
       UsedByAnother(label, name) =>
         LET out == UpdateLabelOutcome(label, name, 0)
         IN  out.err \in ErrDuplicateLabelName /\ out.Labels = Labels /\ out.labelTbl = labelTbl

\* a created label could not take the name the first seed label has
C29_Witness == Returned("UpdateLabel", "error updating label: UNIQUE constraint failed: label.name") /\ Len(Labels) = Len(SeedLabels) + 1 /\ Labels[1].Name = "task" /\ Labels[Len(SeedLabels) + 1].Name = "busywork"

\* a label of the Labels list does not have the name it was seeded or created
\* with: an UpdateLabel has succeeded
Renamed == \E label \in DOMAIN Labels : Labels[label].Name # (IF Labels[label].id <= Len(SeedLabels) THEN SeedLabels[Labels[label].id] ELSE CreatedName)

\* C30: a successful UpdateLabel gives the label its new name in the Labels
\* list and in its row and adds or removes no label; closing and opening the
\* store after one leaves the label rows as they are (the seed script restores
\* no name), loads every label of the Labels list with the name it had, and
\* loads as many labels as the list held.
C30_RenameSurvivesReload ==
  [][/\ \A label \in DOMAIN Labels, name \in RenameNames :
          (UpdateLabel(label, name, 0) /\ result'.err = ErrNone) =>
            /\ Labels'[label].Name = name
            /\ labelTbl'[Labels[label].id] = name
            /\ Len(Labels') = Len(Labels)
            /\ Len(labelTbl') = Len(labelTbl)
     /\ (result'.op = "NewDatabase" /\ Renamed) =>
          /\ labelTbl' = labelTbl
          /\ \A label \in DOMAIN Labels : \E loaded \in DOMAIN Labels' : Labels'[loaded] = Labels[label]
          /\ Len(Labels') = Len(Labels)]_vars

\* C31: when NewDatabase returns an error, for whichever of its storage calls
\* failed, the store it returns is nil, nothing of what it had loaded being
\* handed to the caller; when it returns no error the store is the fully
\* loaded one.
C31_FailedOpenReturnsNil ==
  /\ (result.op = "NewDatabase" /\ result.err # ErrNone) => (database = NoDatabase /\ Labels = <<>> /\ Todos = <<>> /\ DOMAIN Statuses = {} /\ DOMAIN heap = {})
  /\ (result.op = "NewDatabase" /\ result.err = ErrNone) => (database = TheDatabase /\ \E order \in LoadOrders(todoTbl) : <<Statuses, Labels, Todos, heap>> = <<loadTodos(todoTbl, todoLabelTbl, order).Statuses, loadLabels(labelTbl), order, loadTodos(todoTbl, todoLabelTbl, order).heap>>)
  /\ \A order \in LoadOrders(todoTbl), failAt \in 1..7 : NewDatabaseOutcome(order, failAt).err # ErrNone /\ NewDatabaseOutcome(order, failAt).database = NoDatabase

\* loadTodoLabels failed on a file that holds a labelled todo: labels,
\* statuses and todos had been loaded
C31_Witness == result = [op |-> "NewDatabase", err |-> NewDatabaseErrors[7]] /\ database = NoDatabase /\ Len(todoTbl) >= 1 /\ todoLabelTbl # {}

\* the handlers that persist in a transaction
Transactional == {"ChangeStatus", "MoveUp", "MoveDown"}

\* C32: in ChangeStatus, MoveUp and MoveDown a step changes a status list or
\* a todo object only when the transaction of the call has been committed
\* without error, the commit being the last storage call made; a call that has
\* written has committed just before it wrote; and a call whose BeginTx,
\* statement, commit or rollback returned an error has written nothing.
C32_WritesAfterCommit ==
  /\ [][\A c \in Callers : (calls[c].op \in Transactional /\ (mirror' # mirror \/ "Write" \in Range(calls'[c].io))) =>
          (calls[c].committed /\ calls[c].err = ErrNone /\ calls[c].io # <<>> /\ calls[c].io[Len(calls[c].io)] = "Commit" /\ todoTbl' = todoTbl)]_vars
  /\ [](\A c \in Callers : (calls[c].op \in Transactional /\ "Write" \in Range(calls[c].io)) =>
          (calls[c].committed /\ Len(calls[c].io) >= 3 /\ calls[c].io[Len(calls[c].io) - 1] = "Commit" /\ calls[c].io[Len(calls[c].io)] = "Write"))
  /\ [](\A c \in Callers : (calls[c].op \in Transactional /\ calls[c].err \notin {ErrNone, Panic}) =>
          (~calls[c].committed /\ "Write" \notin Range(calls[c].io)))

\* a ChangeStatus with one rank to decrement has committed and then written
C32_Witness == calls[Main].op = "ChangeStatus" /\ calls[Main].pc = "done" /\ calls[Main].err = ErrNone /\ calls[Main].io = <<"BeginTx", "Exec", "Exec", "Commit", "Write">> /\ heap[calls[Main].todo].Status = calls[Main].newStatus

\* the errors of the statements of a transaction, as the handlers wrap them
StatementErrors == {"error updating todo", "error updating todo rank"}

\* C33: when a statement of the transaction of ChangeStatus or MoveUp fails,
\* the next storage call is the rollback; the call then returns the error of
\* the statement or, when the rollback failed, an error made of the failure of
\* the rollback and the error of the statement; it never returns success, it
\* commits nothing (the rows are those of before the call) and it writes no
\* object.
C33_FailedStatementRollsBack ==
  /\ [][\A c \in Callers : (calls[c].op \in Transactional /\ calls[c].pc \in {"move", "decrement", "rank1", "rank2"} /\ calls'[c].err # ErrNone /\ calls'[c].err # Panic) =>
          (calls'[c].pc = "rollback" /\ calls'[c].err \in StatementErrors /\ UNCHANGED <<durable, mirror>>)]_vars
  /\ [][\A c \in Callers : calls[c].pc = "rollback" =>
          /\ calls'[c].pc = "done"
          /\ calls'[c].io = Append(calls[c].io, "Rollback")
          /\ calls'[c].err \in {calls[c].err, "error rolling back transaction after " \o calls[c].err}
          /\ ~calls'[c].committed /\ ~calls'[c].locked
          /\ UNCHANGED <<durable, mirror>>]_vars
  /\ [][\A c \in Callers : (calls[c].op \in Transactional /\ "Rollback" \in Range(calls[c].io)) =>
          (calls'[c] = IdleFrame /\ result' = [op |-> calls[c].op, err |-> calls[c].err] /\ result'.err # ErrNone /\ UNCHANGED <<durable, mirror>>)]_vars
  /\ [][\A c \in Callers : (calls[c].op \in Transactional /\ calls[c].pc \in {"begin", "move", "decrement", "rank1", "rank2", "rollback"}) => UNCHANGED <<durable, mirror>>]_vars
  /\ [](\A todo \in DOMAIN heap, oldStatus \in StatusNames, newStatus \in StatusNames, rbFail \in BOOLEAN :
       (todo \in Range(Statuses[oldStatus].Todos) /\ ChangeStatusCalls(todo, oldStatus, newStatus) > 0) =>
         \A failAt \in 2..(ChangeStatusCalls(todo, oldStatus, newStatus) - 1) :
           LET out == ChangeStatusOutcome(todo, oldStatus, newStatus, failAt, rbFail)
           IN  out.err \in {rollbackOnError(rbFail, e) : e \in StatementErrors} /\ out.io[Len(out.io)] = "Rollback" /\ out.todoTbl = todoTbl /\ out.Statuses = Statuses /\ out.heap = heap)

\* MoveUp returned the error of its second UPDATE within the error of the rollback
C33_Witness == calls[Main].op = "MoveUp" /\ calls[Main].pc = "done" /\ calls[Main].io = <<"BeginTx", "Exec", "Exec", "Rollback">> /\ calls[Main].err = "error rolling back transaction after error updating todo"

\* no call is in progress
Quiescent == \A c \in Callers : calls[c].pc = "idle"

\* the ranks of every status list are 0 .. n-1 and the lists and objects are
\* the rows of the file
Consistent ==
  /\ \A s \in StatusNames : {heap[Statuses[s].Todos[i]].Rank : i \in DOMAIN Statuses[s].Todos} = 0..(Len(Statuses[s].Todos) - 1)
  /\ \A s \in StatusNames :
       /\ Len(Statuses[s].Todos) = Cardinality(RowsOf(s))
       /\ \A i \in DOMAIN Statuses[s].Todos :
            LET todo == heap[Statuses[s].Todos[i]]
            IN  todo.id \in RowsOf(s) /\ todoTbl[todo.id].rank = i - 1 /\ todo.Rank = i - 1 /\ todo.Status = s

\* C34: as long as no two calls have been in progress at the same time, the
\* store is consistent whenever no call is in progress (a state that is not
\* consistent is reached only by interleaving two calls).
C34_OneAtATimeIsConsistent == (Quiescent /\ ~overlapped) => Consistent

\* two interleaved calls have returned and left ranks that are not 0 .. n-1 or
\* lists that are not the rows of the file
C34_RaceBreaksStore == Quiescent /\ overlapped /\ ~Consistent

\* the number of times the storage call e is in io
RECURSIVE Count(_, _)
Count(io, e) == IF io = <<>> THEN 0 ELSE Count(SubSeq(io, 1, Len(io) - 1), e) + (IF io[Len(io)] = e THEN 1 ELSE 0)

\* C35: every call of the seven operations returns; it opens at most one
\* transaction and ends it at most once; after a storage call has failed it
\* issues no other storage call than the one rollback, and writes no object;
\* and it issues no more statements than there are todos, plus one.
C35_EveryCallReturns ==
  /\ \A c \in Callers : (calls[c].pc # "idle") ~> (calls[c].pc = "idle")
  /\ [](\A c \in Callers : Count(calls[c].io, "BeginTx") <= 1 /\ Count(calls[c].io, "Commit") + Count(calls[c].io, "Rollback") <= Count(calls[c].io, "BeginTx") /\ Count(calls[c].io, "Exec") <= Len(todoTbl) + 1)
  /\ [][\A c \in Callers : (calls[c].err # ErrNone /\ calls'[c].io # calls[c].io /\ calls'[c].pc # "idle") =>
          (calls[c].pc = "rollback" /\ calls'[c].io = Append(calls[c].io, "Rollback") /\ calls'[c].pc = "done")]_vars
  /\ [][\A c \in Callers : (calls[c].pc = "idle" /\ calls'[c].pc = "done" /\ calls'[c].op \in {"UpdateTodo", "AddTodoLabel", "RemoveTodoLabel"}) => calls'[c].io \in {<<>>, <<"Exec">>}]_vars

\* MoveDown has returned after one transaction of two statements
C35_Witness == result = [op |-> "MoveDown", err |-> ErrNone] /\ calls[Main] = IdleFrame /\ Len(Statuses[StatusOpen].Todos) = 2

\* C36: Database.Todos holds exactly the todos of the five status lists, and
\* so every todo NewTodo has returned.
C36_TodosHoldsEveryTodo == Range(Todos) = Listed /\ created \subseteq {heap[p].id : p \in Range(Todos)}

\* out leaves the rows, the status lists and the todo objects as they are in
\* the state before the step
Restores(out) == out.err = ErrNone /\ out.todoTbl = todoTbl /\ out.labelTbl = labelTbl /\ out.todoLabelTbl = todoLabelTbl /\ out.Statuses = Statuses /\ out.Labels = Labels /\ out.heap = heap

\* C37: after a successful MoveUp of a todo, MoveDown of the same todo succeeds
\* and leaves every row, list and object as it was before the MoveUp; and
\* after a successful MoveDown, MoveUp of the same todo does.
C37_MoveRoundTrip ==
  [][\A todo \in DOMAIN heap :
       /\ (MoveUp(todo, 0, FALSE) /\ result'.err = ErrNone) => Restores(MoveDownOutcome(todo, 0, FALSE)')
       /\ (MoveDown(todo, 0, FALSE) /\ result'.err = ErrNone) => Restores(MoveUpOutcome(todo, 0, FALSE)')]_vars

\* todo 2 has been moved up in open, and moving it down gives the order of before
C37_Witness == Returned("MoveUp", ErrNone) /\ Statuses[StatusOpen].Todos = <<2, 1>> /\ MoveDownOutcome(2, 0, FALSE).err = ErrNone /\ MoveDownOutcome(2, 0, FALSE).Statuses[StatusOpen].Todos = <<1, 2>>

\* the ids of the labels of the todo object, and of its rows in todo_label
LabelsOf(todo) == {Labels[heap[todo].Labels[i]].id : i \in DOMAIN heap[todo].Labels}

LabelRowsOf(todo) == {pair[2] : pair \in {q \in todoLabelTbl : q[1] = heap[todo].id}}

\* C38: whatever AddTodoLabel and RemoveTodoLabel returned, the labels of every
\* todo object are the labels of its rows in todo_label; RemoveTodoLabel of a
\* label the todo does not carry succeeds and changes nothing.
C38_LabelsMatchRows ==
  /\ \A todo \in DOMAIN heap : LabelsOf(todo) = LabelRowsOf(todo)
  /\ \A todo \in DOMAIN heap, label \in DOMAIN Labels :
       Labels[label].id \notin LabelsOf(todo) => RemoveTodoLabelOutcome(todo, label, 0) = Untouched(ErrNone, <<"Exec">>)

\* a RemoveTodoLabel that failed left a todo with its two labels and two rows
C38_Witness == Returned("RemoveTodoLabel", "error removing label from todo") /\ Cardinality(todoLabelTbl) = 2 /\ \E p \in DOMAIN heap : Len(heap[p].Labels) = 2

\* the statuses a closed todo may be moved to
OutOfClosed == {StatusDone, StatusAbandoned, StatusOnHold}

\* C39: the limit of the closed list never blocks the system. Whenever closed
\* holds MaxClosedTodos todos, ChangeStatus of each of them to done, to
\* abandoned and to on_hold passes validation and, its storage calls
\* succeeding, leaves closed one todo short of the limit; whenever closed is
\* short of the limit, every todo of another status passes validation for a
\* move into closed; and each step that takes a todo out of a full closed list
\* leaves a state with a todo outside closed which validation admits to closed
C39_CapNeverBlocks ==
  /\ [](Len(Statuses[StatusClosed].Todos) >= MaxClosedTodos =>
          \A todo \in Range(Statuses[StatusClosed].Todos), newStatus \in OutOfClosed :
            LET out == ChangeStatusOutcome(todo, StatusClosed, newStatus, 0, FALSE)
            IN  /\ validateStatusChange(todo, Statuses[StatusClosed], Statuses[newStatus]) = ErrNone
                /\ out.err = ErrNone
                /\ Len(out.Statuses[StatusClosed].Todos) = MaxClosedTodos - 1
                /\ out.heap[todo].Status = newStatus)
  /\ [](Len(Statuses[StatusClosed].Todos) < MaxClosedTodos =>
          \A oldStatus \in StatusNames \ {StatusClosed} : \A todo \in Range(Statuses[oldStatus].Todos) :
            validateStatusChange(todo, Statuses[oldStatus], Statuses[StatusClosed]) = ErrNone)
  /\ [][(Len(Statuses[StatusClosed].Todos) = MaxClosedTodos /\ Len(Statuses'[StatusClosed].Todos) < MaxClosedTodos) =>
          \E oldStatus \in OutOfClosed : \E todo \in Range(Statuses'[oldStatus].Todos) :
            /\ todo \in Range(Statuses[StatusClosed].Todos)
            /\ (validateStatusChange(todo, Statuses[oldStatus], Statuses[StatusClosed]))' = ErrNone]_vars

\* closed is full again after one of its todos has gone to done: the six todos
\* made are five in closed and one in done, the last call a ChangeStatus that
\* returned nil
C39_Witness == Returned("ChangeStatus", ErrNone) /\ Len(Statuses[StatusClosed].Todos) = MaxClosedTodos /\ Len(Statuses[StatusDone].Todos) = 1 /\ Len(todoTbl) = MaxClosedTodos + 1

(* ---------------------------------------------------------------------- *)
(* The controller's key events                                             *)
(* ---------------------------------------------------------------------- *)
MaxControllerTodos == 2

\* everything but the controller
store == <<todoTbl, labelTbl, todoLabelTbl, Statuses, Labels, Todos, heap, result, everClosed, reopened, created, database, calls, overlapped>>

\* a status page is shown and the application waits for a key: the input
\* capture is handleKeys
OnStatusPage == result = Idle /\ controller.page \in StatusNames

\* the form is shown and the application waits for a key or the Save button
OnFormPage == result = Idle /\ controller.page = FormPage

\* the handler has logged the error, if any, and returned to the event loop; a
\* runtime panic ends the process instead
ControllerReturn == result.err # Panic /\ TakeResult

\* Show Open, Show Closed, Show Done, Show On Hold, Show Abandoned
getShowAction(name) == OnStatusPage /\ controller' = showStatus(controller, Statuses, heap, name) /\ UNCHANGED store

\* the user moves the selection of the table shown, to the header row or to a
\* row of a todo: tview fires the selection-changed callback
SelectionChanged(row) ==
  /\ OnStatusPage
  /\ row < GetRowCount(Statuses, controller.page)
  /\ controller' = Select(controller, Statuses, controller.page, row)
  /\ UNCHANGED store

\* New Todo
initNewEvent == OnStatusPage /\ controller' = [controller EXCEPT !.selectedTodo = Nil, !.page = FormPage] /\ UNCHANGED store

\* Edit Todo: nothing happens without a selected todo
getEditAction == OnStatusPage /\ controller.selectedTodo # Nil /\ controller' = [controller EXCEPT !.page = FormPage] /\ UNCHANGED store

\* Cancel on the form
getCancelAction == OnFormPage /\ controller' = showStatus(controller, Statuses, heap, controller.selectedStatus) /\ UNCHANGED store

\* Save on the form: NewTodo without a selected todo, UpdateTodo with one; an
\* error leaves the form open, otherwise the row of the todo is selected in the
\* table of its status and that status is shown
initForm(title, failAt) ==
  /\ OnFormPage
  /\ IF controller.selectedTodo = Nil
     THEN LET out == NewTodoOutcome(title, "", failAt)
              todo == CHOOSE p \in DOMAIN out.heap : p \notin DOMAIN heap
          IN  /\ Len(todoTbl) < MaxControllerTodos
              /\ failAt <= (IF title = "" THEN 0 ELSE 2)
              /\ Apply("NewTodo", out)
              /\ controller' = IF out.err # ErrNone THEN controller
                               ELSE showStatus(updateTableSelection(controller, out.Statuses, StatusOpen, out.heap[todo].Rank), out.Statuses, out.heap, StatusOpen)
     ELSE LET out == UpdateTodoOutcome(controller.selectedTodo, title, "", failAt)
              name == controller.selectedStatus
          IN  /\ failAt <= (IF title = "" THEN 0 ELSE 1)
              /\ Apply("UpdateTodo", out)
              /\ controller' = IF out.err # ErrNone THEN controller
                               ELSE showStatus(updateTableSelection(controller, out.Statuses, name, out.heap[controller.selectedTodo].Rank), out.Statuses, out.heap, name)
  /\ UNCHANGED <<everClosed, reopened>>

\* Shift Up and Shift Down: the selection is left as it was
getRerankAction(direction, failAt) ==
  /\ OnStatusPage
  /\ IF direction = "up" THEN MoveUp(controller.selectedTodo, failAt, FALSE) ELSE MoveDown(controller.selectedTodo, failAt, FALSE)
  /\ UNCHANGED <<everClosed, reopened>>

\* Move to Open, Closed, Done, On Hold, Abandoned: an error is logged and
\* nothing else happens, otherwise the new status is shown
getMoveAction(name, failAt) ==
  LET out == ChangeStatusOutcome(controller.selectedTodo, controller.selectedStatus, name, failAt, FALSE)
  IN  /\ OnStatusPage
      /\ failAt <= ChangeStatusCalls(controller.selectedTodo, controller.selectedStatus, name)
      /\ Apply("ChangeStatus", out)
      /\ controller' = IF out.err # ErrNone THEN controller ELSE showStatus(controller, out.Statuses, out.heap, name)
      /\ UNCHANGED <<everClosed, reopened>>

\* the program is left and started again on the same file: main opens the
\* store, makes a controller and calls Go
main(order) ==
  /\ loadData(order)
  /\ controller' = Go(Statuses')
  /\ reopened' = TRUE
  /\ UNCHANGED everClosed

\* SpecController: the key events in any order, the storage calls of NewTodo,
\* ChangeStatus, MoveUp and MoveDown failing or not, and one restart of the
\* program; todos are moved and shifted as long as every rank is one of a list
\* without gaps
\* the ranks, in memory and stored, are ranks of lists without gaps
RanksInRange ==
  /\ \A p \in DOMAIN heap : heap[p].Rank \in 0..(MaxControllerTodos - 1)
  /\ \A i \in DOMAIN todoTbl : todoTbl[i].rank \in 0..(MaxControllerTodos - 1)

\* the statuses whose Show keys are pressed; the Move keys are those of CapTargets
ControllerStatuses == {StatusOpen, StatusClosed, StatusDone}

ControllerShow == \E name \in ControllerStatuses : getShowAction(name)

ControllerSelect == \E row \in 0..MaxControllerTodos : SelectionChanged(row)

ControllerSave == \E title \in {"", "t1"}, failAt \in 0..2 : initForm(title, failAt)

ControllerRerank == \E direction \in {"up", "down"}, failAt \in 0..1 : RanksInRange /\ getRerankAction(direction, failAt)

ControllerMove == \E name \in CapTargets, failAt \in 0..1 : RanksInRange /\ getMoveAction(name, failAt)

ControllerRestart == \E order \in LoadOrders(todoTbl) : ~reopened /\ main(order)

NextController ==
  \/ ControllerShow
  \/ ControllerSelect
  \/ initNewEvent
  \/ getEditAction
  \/ getCancelAction
  \/ ControllerSave
  \/ ControllerRerank
  \/ ControllerMove
  \/ ControllerRestart
  \/ ControllerReturn

SpecController == Init /\ [][NextController]_vars

\* C40: whenever a status page is shown with a todo selected, so that a Move
\* key calls ChangeStatus with it, the selected status is the status that owns
\* the todo: the todo is in the list of the selected status, its Status
\* back-reference names that status, the slice oldStatus.Todos[todo.Rank+1:]
\* is within bounds and the element at index todo.Rank of the list is the todo
C40_MovePassesOwningStatus ==
  (OnStatusPage /\ controller.selectedTodo # Nil) =>
    LET todo == controller.selectedTodo
        oldStatus == Statuses[controller.selectedStatus]
    IN  /\ todo \in Range(oldStatus.Todos)
        /\ heap[todo].Status = oldStatus.Name
        /\ heap[todo].Rank + 1 >= 0
        /\ heap[todo].Rank + 1 <= Len(oldStatus.Todos)
        /\ heap[todo].Rank >= 0
        /\ oldStatus.Todos[heap[todo].Rank + 1] = todo

====
